---------------------------- MODULE Spec2Model ----------------------------
(***************************************************************************)
(* A model of the core of citeproc-rs: the group-vars suppression rule     *)
(* (proc/group.rs), the natural comparison of sort keys                    *)
(* (proc/src/sort/natural_sort.rs) and the processor's incremental update  *)
(* machinery (citeproc/src/db/mod.rs).                                     *)
(*                                                                         *)
(* Strings are sequences of one-character strings; the six private-use     *)
(* delimiters U+E000..U+E005 are written "E000".."E005".                   *)
(***************************************************************************)
EXTENDS Integers, Sequences, FiniteSets, TLC

VARIABLES
    \* ---- group suppression (proc/group.rs) ----
    leaves,        \* the leaves of the group evaluated so far
    summary,       \* the group's GroupVars summary after those leaves
    rendered,      \* should_render_tree() of the summary
    \* ---- natural comparison (sort/natural_sort.rs) ----
    sortA, sortB, sortC,            \* three sort keys
    cmpAB, cmpBA, cmpBC, cmpAC,     \* natural_cmp results, "none" before the call
    exIn, exOut,                    \* extract_citation_number: argument and result
    \* ---- the processor (citeproc/src/db/mod.rs) ----
    style,                \* input: the style
    save_updates,         \* Processor.save_updates
    reference_input,      \* input: reference id -> reference (NoRef: never set)
    all_keys,             \* input: the set of known reference ids
    cluster_ids,          \* input: the cluster ids in document order
    cluster_cites,        \* input: cluster id -> its cites (Unset: never set)
    cluster_note_number,  \* input: cluster id -> its ClusterNumber
    built,                \* the memo of built_cluster(id)
    queue,                \* Processor.queue, a Vec<DocUpdate>
    \* ---- what the caller of the processor has seen and done ----
    library,              \* the references the caller has handed over so far
    executed,             \* the built_cluster(id) executed since the queue was emptied
    delivered,            \* cluster id -> the output the caller last obtained
    lastOp,               \* the last call and what it returned
    history,              \* what happened since the queue was last emptied
    calls,                \* the number of calls made so far
    \* ---- the threads of a parallel compute() ----
    rayon,                \* the build: with the rayon feature or without
    pc,                   \* where the owner thread is in batched_updates()
    lock,                 \* the holder of the queue's mutex
    thr,                  \* thread -> the query it is executing
    todo,                 \* the items of the running loop not yet taken
    irMemo,               \* the memo of ir_gen2_add_given_name(cite)
    ysMemo,               \* the memo of year_suffixes
    seen,                 \* the queue as summarize read it
    started,              \* cluster id -> built_cluster executions begun
    pushed,               \* cluster id -> entries appended to the queue
    consumed,             \* cluster id -> entries removed by clear()
    lost,                 \* the ids cleared that no summary held
    \* ---- a person's name under parse_particles (io/src/names.rs) ----
    person,               \* the PersonName
    before,               \* the PersonName as it was before the last call
    parses,               \* the number of parse_particles() calls so far
    \* ---- a test case: its processor and its executor (tests/suite.rs) ----
    format,               \* TestCase.format as deserialized
    made,                 \* what Processor::new returned
    n_cite,               \* JsExecutor.n_cite
    next_id,              \* JsExecutor.next_id
    cluster_ids_mapping,  \* JsExecutor.cluster_ids_mapping (0: no entry)
    current_note_numbers, \* JsExecutor.current_note_numbers (NoNumber: no entry)
    last_cites,           \* the cites the last execute() built
    instruction,          \* the instruction last handed to execute()
    \* ---- a RefContext and the last question put to it (ref_context.rs) ----
    ctx,                  \* the RefContext
    asked,                \* the last call on it and its answer
    \* ---- nested groups (proc/group.rs) ----
    stack,                \* the summaries of the open group subtrees
    gvOp,                 \* the last combination of two summaries
    \* ---- flip-flop formatting (io/src/output/markup/flip_flop.rs) ----
    ffState,              \* the FlipFlopState
    ffIn,                 \* the inline elements handed to flip_flop_inlines
    ffOut                 \* the elements it returned

groupVars == <<leaves, summary, rendered>>
sortVars  == <<sortA, sortB, sortC, cmpAB, cmpBA, cmpBC, cmpAC, exIn, exOut>>
inputVars == <<style, reference_input, all_keys, cluster_ids, cluster_cites,
               cluster_note_number>>
procVars  == <<inputVars, save_updates, built, queue>>
callerVars == <<library, executed, delivered, lastOp, history, calls>>
parVars   == <<rayon, pc, lock, thr, todo, irMemo, ysMemo, seen, started,
               pushed, consumed, lost>>
nameVars  == <<person, before, parses>>
suiteVars == <<format, made, n_cite, next_id, cluster_ids_mapping,
               current_note_numbers, last_cites, instruction>>
refVars   == <<ctx, asked>>
treeVars  == <<stack, gvOp>>
flipVars  == <<ffState, ffIn, ffOut>>
extVars   == <<nameVars, suiteVars, refVars, treeVars, flipVars>>
notNames  == <<suiteVars, refVars, treeVars, flipVars>>
notSuite  == <<nameVars, refVars, treeVars, flipVars>>
notRef    == <<nameVars, suiteVars, treeVars, flipVars>>
notTree   == <<nameVars, suiteVars, refVars, flipVars>>
notFlip   == <<nameVars, suiteVars, refVars, treeVars>>
coreVars  == <<groupVars, sortVars, procVars, callerVars, parVars>>
vars      == <<groupVars, sortVars, procVars, callerVars, parVars, extVars>>

None == "none"

\* Option<u32>
NoneOpt == [st |-> "none"]
Some(v) == [st |-> "some", v |-> v]

(***************************************************************************)
(*                     GroupVars  (citeproc/src/proc/group.rs)             *)
(***************************************************************************)
GroupVars == {"NoneSeen", "OnlyEmpty", "DidRender"}

GroupVarsNew == "NoneSeen"

rendered_if(b) == IF b THEN "DidRender" ELSE "OnlyEmpty"

did_not_render(self) == IF self = "DidRender" THEN "DidRender" ELSE "OnlyEmpty"

did_render(self) == "DidRender"

\* A plausible slip: an empty child subtree always demotes its parent.
with_subtree_onlyEmptyDemotes(self, subtree) ==
    CASE subtree = "NoneSeen"  -> self
      [] subtree = "OnlyEmpty" -> "OnlyEmpty"
      [] subtree = "DidRender" -> "DidRender"

\* A plausible slip: the child's summary replaces the parent's.
with_subtree_childReplaces(self, subtree) == subtree

with_subtree(self, subtree) ==
    CASE subtree = "NoneSeen"  -> self
      [] subtree = "OnlyEmpty" -> did_not_render(self)
      [] subtree = "DidRender" -> "DidRender"

\* A plausible slip: NoneSeen swallows an OnlyEmpty neighbour.
neighbour_noneSeenWins(self, other) ==
    CASE self = "DidRender"   -> "DidRender"
      [] other = "DidRender"  -> "DidRender"
      [] self = "NoneSeen"    -> "NoneSeen"
      [] other = "NoneSeen"   -> "NoneSeen"
      [] OTHER                -> "OnlyEmpty"

\* A plausible slip: the later sibling decides unless the earlier rendered.
neighbour_laterWins(self, other) ==
    CASE self = "DidRender"   -> "DidRender"
      [] OTHER                -> other

neighbour(self, other) ==
    CASE self = "DidRender"   -> "DidRender"
      [] other = "DidRender"  -> "DidRender"
      [] self = "OnlyEmpty"   -> "OnlyEmpty"
      [] other = "OnlyEmpty"  -> "OnlyEmpty"
      [] OTHER                -> "NoneSeen"

\* A plausible slip: render only what did render.
should_render_tree_onlyDidRender(self) == self = "DidRender"

should_render_tree(self) == self # "OnlyEmpty"

(* The leaves of a <group>: <text value=.../> references no variable;      *)
(* <text variable=.../> references one, which has content or not.          *)
LeafKinds == {"value", "varPresent", "varEmpty"}

MaxLeaves == 4

\* What one leaf contributes to the enclosing group's summary.
LeafVars(leaf) ==
    IF leaf = "value" THEN GroupVarsNew ELSE rendered_if(leaf = "varPresent")

GroupInit ==
    /\ leaves = <<>>
    /\ summary = GroupVarsNew
    /\ rendered = should_render_tree(GroupVarsNew)

\* Evaluate the next child of the group and fold it into the summary.
AddLeaf(leaf) ==
    /\ Len(leaves) < MaxLeaves
    /\ leaves' = Append(leaves, leaf)
    /\ summary' = neighbour(summary, LeafVars(leaf))
    /\ rendered' = should_render_tree(neighbour(summary, LeafVars(leaf)))
    /\ UNCHANGED <<sortVars, procVars, callerVars, parVars, extVars>>

GroupNext == \E leaf \in LeafKinds : AddLeaf(leaf)

(***************************************************************************)
(*              Natural comparison  (sort/natural_sort.rs)                 *)
(***************************************************************************)
DATE_START == "E000"
DATE_END == "E001"
NUM_START == "E002"
NUM_END == "E003"
CITATION_NUM_START == "E004"
CITATION_NUM_END == "E005"

Digits == <<"0", "1", "2", "3", "4", "5", "6", "7", "8", "9">>

is_ascii_digit(c) == \E i \in 1..10 : Digits[i] = c

DigitVal(c) == (CHOOSE i \in 1..10 : Digits[i] = c) - 1

RECURSIVE to_u32(_)
to_u32(s) ==
    IF s = <<>> THEN 0
    ELSE 10 * to_u32(SubSeq(s, 1, Len(s) - 1)) + DigitVal(s[Len(s)])

\* The characters sort keys are made of in this model, in code-point order.
Alphabet ==
    <<"-", "/", "0", "1", "2", "3", "4", "5", "6", "7", "8", "9",
      "A", "B", "a", "b",
      DATE_START, DATE_END, NUM_START, NUM_END,
      CITATION_NUM_START, CITATION_NUM_END>>

Chars == {Alphabet[i] : i \in 1..Len(Alphabet)}

CharRank(c) == CHOOSE i \in 1..Len(Alphabet) : Alphabet[i] = c

DigitChars == {c \in Chars : is_ascii_digit(c)}

\* Number of leading characters of inp that are in the set S.
RECURSIVE CountWhile(_, _)
CountWhile(S, inp) ==
    IF inp = <<>> \/ inp[1] \notin S THEN 0 ELSE 1 + CountWhile(S, Tail(inp))

Drop(inp, n) == SubSeq(inp, n + 1, Len(inp))
Take(inp, n) == SubSeq(inp, 1, n)

Fail == [ok |-> FALSE]
Ok(rem, out) == [ok |-> TRUE, rem |-> rem, out |-> out]

\* nom's take_while_m_n(m, n, cond), cond given as the set of accepted chars
take_while_m_n(m, n, S, inp) ==
    LET k == CountWhile(S, inp)
        t == IF k > n THEN n ELSE k
    IN  IF k < m THEN Fail ELSE Ok(Drop(inp, t), Take(inp, t))

\* nom's take_while1(cond)
take_while1(S, inp) ==
    LET k == CountWhile(S, inp)
    IN  IF k < 1 THEN Fail ELSE Ok(Drop(inp, k), Take(inp, k))

\* A plausible slip: an off-by-one in the width of the digit field.
take_8_digits_upTo9(inp) == take_while_m_n(1, 9, DigitChars, inp)

take_8_digits(inp) == take_while_m_n(1, 8, DigitChars, inp)

\* nom's char(c)
char(c, inp) ==
    IF inp # <<>> /\ inp[1] = c THEN Ok(Tail(inp), c) ELSE Fail

\* nom's take_until(c): everything before the first c; fails without one.
take_until(c, inp) ==
    LET k == CountWhile(Chars \ {c}, inp)
    IN  IF k = Len(inp) THEN Fail ELSE Ok(Drop(inp, k), Take(inp, k))

\* delimited(char(open), map(take_8_digits, to_u32 . ctor), char(close))
DelimitedNumber(open, close, type, inp) ==
    LET a == char(open, inp) IN
    IF ~a.ok THEN Fail ELSE
    LET b == take_8_digits(a.rem) IN
    IF ~b.ok THEN Fail ELSE
    LET c == char(close, b.rem) IN
    IF ~c.ok THEN Fail ELSE Ok(c.rem, [type |-> type, n |-> to_u32(b.out)])

citation_number(inp) ==
    DelimitedNumber(CITATION_NUM_START, CITATION_NUM_END, "CitationNumber", inp)

num(inp) == DelimitedNumber(NUM_START, NUM_END, "Num", inp)

(* ---- std::cmp::Ordering and the comparisons built from it ---- *)
CmpInt(a, b) == IF a < b THEN "Less" ELSE IF a > b THEN "Greater" ELSE "Equal"

\* Ordering::then_with
Then(o, p) == IF o # "Equal" THEN o ELSE p

Reverse(o) == CASE o = "Less" -> "Greater" [] o = "Greater" -> "Less" [] OTHER -> o

\* Lexicographic comparison of two strings by code point (str::cmp).
RECURSIVE CmpStr(_, _)
CmpStr(a, b) ==
    IF a = <<>> /\ b = <<>> THEN "Equal"
    ELSE IF a = <<>> THEN "Less"
    ELSE IF b = <<>> THEN "Greater"
    ELSE Then(CmpInt(CharRank(a[1]), CharRank(b[1])), CmpStr(Tail(a), Tail(b)))

ToLower(c) == CASE c = "A" -> "a" [] c = "B" -> "b" [] OTHER -> c

Lowercase(s) == [i \in 1..Len(s) |-> ToLower(s[i])]

(* sort::Natural, the comparison of plain text: case-insensitive first,    *)
(* then case-sensitive with uppercase first; Equal only for identical      *)
(* strings.                                                                *)
NaturalPartialCmp(a, b) == Then(CmpStr(Lowercase(a), Lowercase(b)), CmpStr(a, b))

(* ---- citeproc_io::edtf::Edtf::parse and OrderedDate ---- *)
AllDigits(s) == \A i \in 1..Len(s) : is_ascii_digit(s[i])

\* [-]YYYY[-MM[-DD]] as <<year, month, day>>, missing parts 0; or Fail.
ParseYMD(s) ==
    LET neg  == s # <<>> /\ s[1] = "-"
        body == IF neg THEN Tail(s) ELSE s
        n    == Len(body)
        y    == to_u32(Take(body, 4))
        year == IF neg THEN 0 - y ELSE y
    IN  IF n \notin {4, 7, 10} \/ ~AllDigits(Take(body, 4)) THEN Fail
        ELSE IF n = 4 THEN Ok(<<>>, <<year, 0, 0>>)
        ELSE IF body[5] # "-" \/ ~AllDigits(SubSeq(body, 6, 7)) THEN Fail
        ELSE IF n = 7 THEN Ok(<<>>, <<year, to_u32(SubSeq(body, 6, 7)), 0>>)
        ELSE IF body[8] # "-" \/ ~AllDigits(SubSeq(body, 9, 10)) THEN Fail
        ELSE Ok(<<>>, <<year, to_u32(SubSeq(body, 6, 7)), to_u32(SubSeq(body, 9, 10))>>)

\* A single date, or start/end.
EdtfParse(s) ==
    LET k == CountWhile(Chars \ {"/"}, s) IN
    IF k = Len(s)
    THEN LET d == ParseYMD(s) IN
         IF d.ok THEN Ok(<<>>, [isRange |-> FALSE, start |-> d.out, end |-> d.out])
         ELSE Fail
    ELSE LET a == ParseYMD(Take(s, k))
             b == ParseYMD(Drop(s, k + 1)) IN
         IF a.ok /\ b.ok
         THEN Ok(<<>>, [isRange |-> TRUE, start |-> a.out, end |-> b.out])
         ELSE Fail

CmpYMD(a, b) ==
    Then(CmpInt(a[1], b[1]), Then(CmpInt(a[2], b[2]), CmpInt(a[3], b[3])))

(* OrderedDate's comparison: by start date; a single date before a range   *)
(* that starts on it; two ranges by their end dates.  A literal date is    *)
(* compared through its text.                                              *)
OrderedDatePartialCmp(a, b) ==
    IF a.kind = "Edtf" /\ b.kind = "Edtf"
    THEN Then(CmpYMD(a.edtf.start, b.edtf.start),
              IF ~a.edtf.isRange /\ b.edtf.isRange THEN "Less"
              ELSE IF a.edtf.isRange /\ ~b.edtf.isRange THEN "Greater"
              ELSE CmpYMD(a.edtf.end, b.edtf.end))
    ELSE CmpStr(a.text, b.text)

(* ---- the tokenizer ---- *)
range(inp) ==
    LET a == char(DATE_START, inp) IN
    IF ~a.ok THEN Fail ELSE
    LET b == take_until(DATE_END, a.rem) IN
    IF ~b.ok THEN Fail ELSE
    LET e == EdtfParse(b.out)
        parsed == IF e.ok THEN [kind |-> "Edtf", edtf |-> e.out, text |-> b.out]
                  ELSE [kind |-> "Literal", text |-> b.out]
        c == char(DATE_END, b.rem)
    IN  IF ~c.ok THEN Fail ELSE Ok(c.rem, [type |-> "Date", d |-> parsed])

\* fn normal(c) in str_token
NormalChars == Chars \ {DATE_START, NUM_START, CITATION_NUM_START}

str_token(inp) ==
    LET r == take_while1(NormalChars, inp)
    IN  IF r.ok THEN Ok(r.rem, [type |-> "Str", s |-> r.out]) ELSE Fail

\* alt((str_token, citation_number, num, range))
token(inp) ==
    LET a == str_token(inp) IN IF a.ok THEN a ELSE
    LET b == citation_number(inp) IN IF b.ok THEN b ELSE
    LET c == num(inp) IN IF c.ok THEN c ELSE
    range(inp)

\* TokenIterator::next: None on an empty rest or on a rest that is no token.
TokenIteratorNext(remain) ==
    IF remain = <<>> THEN Fail ELSE token(remain)

\* All the tokens TokenIterator yields for s.
RECURSIVE Tokens(_)
Tokens(s) ==
    LET r == TokenIteratorNext(s)
    IN  IF r.ok THEN <<r.out>> \o Tokens(r.rem) ELSE <<>>

\* A plausible slip: dates are left uncompared.
TokenPartialCmp_noDates(a, b) ==
    CASE a.type = "Str" /\ b.type = "Str" -> NaturalPartialCmp(a.s, b.s)
      [] a.type = "Num" /\ b.type = "Num"   -> CmpInt(a.n, b.n)
      [] OTHER -> None

\* A plausible slip: citation numbers are compared like numbers.
TokenPartialCmp_cnumCompared(a, b) ==
    CASE a.type = "Str" /\ b.type = "Str"   -> NaturalPartialCmp(a.s, b.s)
      [] a.type = "Date" /\ b.type = "Date" -> OrderedDatePartialCmp(a.d, b.d)
      [] a.type = "Num" /\ b.type = "Num"   -> CmpInt(a.n, b.n)
      [] a.type = "CitationNumber" /\ b.type = "CitationNumber" -> CmpInt(a.n, b.n)
      [] OTHER -> None

\* A plausible slip: text is put before numbers, in one direction only.
TokenPartialCmp_strBeforeNum(a, b) ==
    CASE a.type = "Str" /\ b.type = "Str"   -> NaturalPartialCmp(a.s, b.s)
      [] a.type = "Date" /\ b.type = "Date" -> OrderedDatePartialCmp(a.d, b.d)
      [] a.type = "Num" /\ b.type = "Num"   -> CmpInt(a.n, b.n)
      [] a.type = "Str" /\ b.type = "Num"   -> "Less"
      [] OTHER -> None

\* impl PartialOrd for Token
TokenPartialCmp(a, b) ==
    CASE a.type = "Str" /\ b.type = "Str"   -> NaturalPartialCmp(a.s, b.s)
      [] a.type = "Date" /\ b.type = "Date" -> OrderedDatePartialCmp(a.d, b.d)
      [] a.type = "Num" /\ b.type = "Num"   -> CmpInt(a.n, b.n)
      [] OTHER -> None

Min(a, b) == IF a < b THEN a ELSE b

(* The loop of natural_cmp over the zipped token streams from position i,  *)
(* o being the ordering found so far.                                      *)
RECURSIVE NaturalCmpLoop(_, _, _, _)
NaturalCmpLoop(ta, tb, i, o) ==
    IF i > Min(Len(ta), Len(tb)) THEN o
    ELSE IF o # "Equal" THEN o
    ELSE LET c == TokenPartialCmp(ta[i], tb[i])
         IN  NaturalCmpLoop(ta, tb, i + 1, IF c # None THEN c ELSE o)

\* A plausible slip: the scan ends at the first position without an ordering.
RECURSIVE NaturalCmpLoop_stopsAtMixed(_, _, _, _)
NaturalCmpLoop_stopsAtMixed(ta, tb, i, o) ==
    IF i > Min(Len(ta), Len(tb)) THEN o
    ELSE IF o # "Equal" THEN o
    ELSE LET c == TokenPartialCmp(ta[i], tb[i])
         IN  IF c = None THEN o ELSE NaturalCmpLoop_stopsAtMixed(ta, tb, i + 1, c)

natural_cmp_stopsAtMixed(a, b) ==
    NaturalCmpLoop_stopsAtMixed(Tokens(a), Tokens(b), 1, "Equal")

natural_cmp(a, b) == NaturalCmpLoop(Tokens(a), Tokens(b), 1, "Equal")

extract_citation_number(s) ==
    LET r == TokenIteratorNext(s)
    IN  IF r.ok /\ r.out.type = "CitationNumber" THEN Some(r.out.n) ELSE NoneOpt

(***************************************************************************)
(*                 Inputs of the natural comparison                        *)
(***************************************************************************)
\* The texts of the date segments: the dates of natural_cmp_strings and of
\* the module documentation, and two ranges that start on the same day.
DateTexts ==
    { <<"2", "0", "0", "0">>,
      <<"2", "0", "0", "0", "-", "0", "4">>,
      <<"2", "0", "0", "0", "-", "0", "4", "-", "0", "1">>,
      <<"-", "0", "1", "0", "0">>,
      <<"-", "0", "0", "4", "4">>,
      <<"0", "0", "5", "0">>,
      <<"0", "1", "0", "0">>,
      <<"2", "0", "0", "9", "-", "0", "4", "-", "0", "7">>,
      <<"2", "0", "0", "9", "-", "0", "4", "-", "0", "7", "/", "2", "0", "1", "0", "-", "0", "5", "-", "0", "9">>,
      <<"2", "0", "0", "9", "-", "0", "4", "-", "0", "7", "/", "2", "0", "1", "1", "-", "0", "1", "-", "0", "1">> }

DateSeg(t) == <<DATE_START>> \o t \o <<DATE_END>>
NumSeg(t) == <<NUM_START>> \o t \o <<NUM_END>>
CitationNumSeg(t) == <<CITATION_NUM_START>> \o t \o <<CITATION_NUM_END>>

\* Keys made of an optional plain prefix and one date segment.
DateKeys == {pre \o DateSeg(t) : pre \in {<<>>, <<"a">>}, t \in DateTexts}

\* The segments mixed keys are made of: plain text, numbers, citation
\* numbers, a date, and a date segment that lacks its closing delimiter.
SegPool ==
    { <<"a">>, <<"A">>,
      NumSeg(<<"1">>), NumSeg(<<"0", "2">>),
      CitationNumSeg(<<"1">>), CitationNumSeg(<<"2">>),
      DateSeg(<<"2", "0", "0", "0">>),
      <<DATE_START, "2", "0", "0", "0">> }

MaxSegs == 2

RECURSIVE SegSeqs(_)
SegSeqs(n) ==
    IF n = 0 THEN {<<>>}
    ELSE {k \o seg : k \in SegSeqs(n - 1), seg \in SegPool} \cup SegSeqs(n - 1)

\* NaturalCmp::new refuses the empty string.
MixedKeys == SegSeqs(MaxSegs) \ {<<>>}

SortKeys == DateKeys \cup MixedKeys

(* Arguments of extract_citation_number: a prefix, an opening delimiter,   *)
(* up to MaxDigits digits, a closing delimiter, a rest.                    *)
MaxDigits == 9

DigitRuns == UNION {[1..n -> {"0", "8"}] : n \in 0..MaxDigits}

ExtractInputs ==
    { pre \o open \o ds \o close \o post :
        pre \in {<<>>, <<"a">>},
        open \in {<<CITATION_NUM_START>>, <<NUM_START>>, <<>>},
        ds \in DigitRuns,
        close \in {<<CITATION_NUM_END>>, <<>>},
        post \in {<<>>, <<"a">>} }

Pending == "pending"
Unused == "unused"
ExPending == [st |-> "pending"]
ExUnused == [st |-> "unused"]

\* Either two keys, or three keys of one segment each, or an argument of
\* extract_citation_number.
SortInit ==
    \/ /\ sortA \in SortKeys
       /\ sortB \in SortKeys
       /\ sortC = <<>>
       /\ cmpAB = Pending /\ cmpBA = Pending /\ cmpBC = Unused /\ cmpAC = Unused
       /\ exIn = <<>> /\ exOut = ExUnused
    \/ /\ sortA \in SegPool
       /\ sortB \in SegPool
       /\ sortC \in SegPool
       /\ cmpAB = Pending /\ cmpBA = Pending /\ cmpBC = Pending /\ cmpAC = Pending
       /\ exIn = <<>> /\ exOut = ExUnused
    \/ /\ sortA = <<>> /\ sortB = <<>> /\ sortC = <<>>
       /\ cmpAB = Unused /\ cmpBA = Unused /\ cmpBC = Unused /\ cmpAC = Unused
       /\ exIn \in ExtractInputs
       /\ exOut = ExPending

\* NaturalCmp::cmp on the pairs of the keys.
Compare ==
    /\ cmpAB = Pending
    /\ cmpAB' = natural_cmp(sortA, sortB)
    /\ cmpBA' = natural_cmp(sortB, sortA)
    /\ cmpBC' = IF cmpBC = Pending THEN natural_cmp(sortB, sortC) ELSE cmpBC
    /\ cmpAC' = IF cmpAC = Pending THEN natural_cmp(sortA, sortC) ELSE cmpAC
    /\ UNCHANGED <<sortA, sortB, sortC, exIn, exOut>>
    /\ UNCHANGED <<groupVars, procVars, callerVars, parVars, extVars>>

Extract ==
    /\ exOut = ExPending
    /\ exOut' = extract_citation_number(exIn)
    /\ UNCHANGED <<sortA, sortB, sortC, cmpAB, cmpBA, cmpBC, cmpAC, exIn>>
    /\ UNCHANGED <<groupVars, procVars, callerVars, parVars, extVars>>

SortNext == Compare \/ Extract

(***************************************************************************)
(*                 The processor  (citeproc/src/db/mod.rs)                 *)
(***************************************************************************)
RefIds == {"r1", "r2"}

\* The order of the references' sort keys.
RefOrder == <<"r1", "r2">>
RefRank(r) == CHOOSE i \in 1..Len(RefOrder) : RefOrder[i] = r

ClusterIds == {1, 2}

\* What a reference holds (its author and year, say); NoRef: no reference.
MaxContent == 1
Contents == 1..MaxContent
NoRef == 0

Styles == {"s1", "s2"}

\* ClusterNumber
InText(n) == [kind |-> "InText", n |-> n]
Note(n) == [kind |-> "Note", n |-> n]
ClusterNumbers == {InText(0), Note(1)}

\* An input of the database that was never set.
Unset == <<"unset">>
NoNumber == [kind |-> "Unset", n |-> 0]

\* A cite is the id of the reference it cites.
MaxCites == 1
CiteLists == UNION {[1..n -> RefIds] : n \in 0..MaxCites}

MaxQueue == 3

Range(f) == {f[i] : i \in DOMAIN f}

(* ---- the rendering of a cluster: a pure function of the inputs ---- *)
\* The reference query: an id outside all_keys has no reference.
reference(keys, input, r) == IF r \in keys THEN input[r] ELSE NoRef

CitesOf(cites, c) == IF cites[c] = Unset THEN <<>> ELSE cites[c]

\* The clusters before c in document order.
Earlier(ids, c) ==
    {ids[j] : j \in {j \in DOMAIN ids : \E i \in DOMAIN ids : j < i /\ ids[i] = c}}

CitedRefs(ids, cites) == UNION {Range(CitesOf(cites, c)) : c \in Range(ids)}

\* First, unless an earlier cite in document order is to the same reference.
Position(ids, cites, c, i) ==
    LET r == cites[c][i] IN
    IF \/ \E d \in Earlier(ids, c) \ {c} : r \in Range(CitesOf(cites, d))
       \/ \E j \in 1..(i - 1) : cites[c][j] = r
    THEN "Subsequent" ELSE "First"

\* The year suffix of a cited reference: its rank, in sort-key order, among
\* the cited references that read the same; 0 when it is alone.
YearSuffix(keys, input, ids, cites, r) ==
    LET same == {k \in CitedRefs(ids, cites) \cap keys : input[k] = input[r]}
    IN  IF r \notin same \/ Cardinality(same) < 2 THEN 0
        ELSE Cardinality({k \in same : RefRank(k) <= RefRank(r)})

Render(st, keys, input, ids, cites, numbers, c) ==
    [style  |-> st,
     number |-> numbers[c],
     items  |-> [i \in 1..Len(cites[c]) |->
                   [ref      |-> reference(keys, input, cites[c][i]),
                    position |-> Position(ids, cites, c, i),
                    suffix   |-> YearSuffix(keys, input, ids, cites, cites[c][i])]]]

NoOutput == [style |-> "none", number |-> NoNumber, items |-> <<>>]

\* built_cluster(c) computed from the current inputs.
BuiltNow(c) ==
    Render(style, all_keys, reference_input, cluster_ids, cluster_cites,
           cluster_note_number, c)

\* Reading an input that was never set panics.
CanBuild(c) ==
    /\ cluster_cites[c] # Unset
    /\ cluster_note_number[c] # NoNumber

(* ---- the incremental substrate ---- *)
\* The keys of the inputs: <<input, reference id, cluster id>>.
StyleKey == <<"style", "", 0>>
AllKeysKey == <<"all_keys", "", 0>>
ClusterIdsKey == <<"cluster_ids", "", 0>>
ReferenceKey(r) == <<"reference_input", r, 0>>
CitesKey(c) == <<"cluster_cites", "", c>>
NumberKey(c) == <<"cluster_note_number", "", c>>

\* built_cluster(c) reads every input but the numbers of the other clusters.
DependsOn(c, k) == k[1] # "cluster_note_number" \/ k[3] = c

\* Setting inputs marks the memos that depend on them stale.
Invalidate(b, keys) ==
    [c \in ClusterIds |->
        IF b[c].st = "fresh" /\ \E k \in keys : DependsOn(c, k)
        THEN [b[c] EXCEPT !.st = "stale"] ELSE b[c]]

WillExecute(query, key) == [kind |-> "WillExecute", query |-> query, key |-> key]
DidValidateMemoizedValue(query, key) ==
    [kind |-> "DidValidateMemoizedValue", query |-> query, key |-> key]

DocUpdateCluster(key) == <<"Cluster", key>>

\* A plausible slip: any executed query is recorded as a cluster update.
salsa_event_anyQuery(q, event) ==
    IF ~save_updates THEN q
    ELSE IF event.kind = "WillExecute"
         THEN Append(q, DocUpdateCluster(event.key))
         ELSE q

\* Database::salsa_event, on the queue q
salsa_event(q, event) ==
    IF ~save_updates THEN q
    ELSE IF event.kind = "WillExecute" /\ event.query = "built_cluster"
         THEN Append(q, DocUpdateCluster(event.key))
         ELSE q

RECURSIVE ApplyEvents(_, _)
ApplyEvents(q, events) ==
    IF events = <<>> THEN q
    ELSE ApplyEvents(salsa_event(q, Head(events)), Tail(events))

\* The cluster ids whose built_cluster was executed, from the events.
IsBuiltExecution(e) == e.kind = "WillExecute" /\ e.query = "built_cluster"

ExecutedIn(events) ==
    LET ex == SelectSeq(events, IsBuiltExecution)
    IN  [i \in 1..Len(ex) |-> ex[i].key]

\* The events of executing built_cluster(c): its cites' IRs and the year
\* suffixes are queried on the way.
ExecutionEvents(c) ==
    [i \in 1..Len(cluster_cites[c]) |->
        WillExecute("ir_gen2_add_given_name", c)]
    \o <<WillExecute("year_suffixes", 0), WillExecute("built_cluster", c)>>

(* The query built_cluster(c) on the memo state m = [built, events].  A     *)
(* fresh memo is returned as it is.  A stale memo whose value would not     *)
(* change may be validated without executing (validate) when none of the    *)
(* values it was computed from changed; otherwise the query executes.       *)
QueryBuilt(m, c, validate) ==
    LET b == m.built[c] IN
    IF b.st = "fresh" THEN m
    ELSE IF b.st = "stale" /\ b.val = BuiltNow(c) /\ validate
    THEN [built  |-> [m.built EXCEPT ![c] = [st |-> "fresh", val |-> b.val]],
          events |-> Append(m.events, DidValidateMemoizedValue("built_cluster", c))]
    ELSE [built  |-> [m.built EXCEPT ![c] = [st |-> "fresh", val |-> BuiltNow(c)]],
          events |-> m.events \o ExecutionEvents(c)]

RECURSIVE QueryAll(_, _, _)
QueryAll(m, order, V) ==
    IF order = <<>> THEN m
    ELSE QueryAll(QueryBuilt(m, Head(order), Head(order) \in V), Tail(order), V)

\* The orders in which the clusters of cluster_ids may be built: document
\* order without rayon, any order on rayon's threads.
Orders(ids) ==
    {o \in [1..Len(ids) -> Range(ids)] :
        \A i, j \in 1..Len(ids) : i # j => o[i] # o[j]}

\* A plausible slip: the last cluster of the document is left out.
compute_skipsLast(order, V) ==
    QueryAll([built |-> built, events |-> <<>>],
             SubSeq(order, 1, Len(order) - 1), V)

\* Processor::compute: built_cluster for every id of cluster_ids.
compute(order, V) == QueryAll([built |-> built, events |-> <<>>], order, V)

(* UpdateSummary::summarize: the ids of the queue, each with its built      *)
(* cluster.                                                                 *)
summarize(q) == {<<q[i][2], BuiltNow(q[i][2])>> : i \in 1..Len(q)}

SummaryIds(sm) == {e[1] : e \in sm}


\* summarize queries built_cluster while batched_updates holds the queue's
\* lock: were one of these queries to execute or to validate its memo,
\* salsa_event would wait for the lock its own thread holds, and the call
\* would not return.
SummarizeReturns(b, q) == \A i \in 1..Len(q) : b[q[i][2]].st = "fresh"

(* ---- the caller's record of the calls ---- *)
NoHistory == [mutated |-> FALSE, strayRead |-> FALSE, cleared |-> "none"]
Mutated == [history EXCEPT !.mutated = TRUE]
Cleared(op) == [mutated |-> FALSE, strayRead |-> FALSE, cleared |-> op]

Op(name) ==
    [err |-> FALSE, op |-> name, ids |-> {}, recorded |-> {}, missed |-> {},
     computed |-> FALSE, before |-> NoHistory]

\* The caller makes at most MaxCalls calls.
MaxCalls == 4
Call == calls < MaxCalls /\ calls' = calls + 1

\* The clusters of the document whose output is not the one delivered last.
Changed == {c \in Range(cluster_ids) : BuiltNow(c) # delivered[c]}

LibraryKeys == {r \in RefIds : library[r] # NoRef}

ProcInit ==
    /\ style = "s1"
    /\ save_updates \in BOOLEAN
    /\ reference_input = [r \in RefIds |-> NoRef]
    /\ all_keys = {}
    /\ cluster_ids = <<>>
    /\ cluster_cites = [c \in ClusterIds |-> Unset]
    /\ cluster_note_number = [c \in ClusterIds |-> NoNumber]
    /\ built = [c \in ClusterIds |-> [st |-> "none", val |-> NoOutput]]
    /\ queue = <<>>
    /\ library = [r \in RefIds |-> NoRef]
    /\ executed = <<>>
    /\ delivered = [c \in ClusterIds |-> NoOutput]
    /\ history = NoHistory
    /\ calls = 0
    /\ lastOp = [err |-> FALSE, op |-> "new", ids |-> {}, recorded |-> {}, missed |-> {},
                 computed |-> FALSE, before |-> NoHistory]

(* ---- mutations ---- *)
\* Style::from_str
StyleTexts == Styles \cup {"not a style"}
StyleFromStr(text) == IF text \in Styles THEN Some(text) ELSE NoneOpt

\* Processor::set_style_text
SetStyleText(text) ==
    /\ Call
    /\ IF StyleFromStr(text).st = "some"
       THEN /\ style' = StyleFromStr(text).v
            /\ built' = Invalidate(built, {StyleKey})
            /\ history' = Mutated
       ELSE UNCHANGED <<style, built, history>>
    /\ lastOp' = [Op("set_style_text") EXCEPT !.err = StyleFromStr(text).st # "some"]
    /\ UNCHANGED <<save_updates, reference_input, all_keys, cluster_ids,
                   cluster_cites, cluster_note_number, queue>>
    /\ UNCHANGED <<library, executed, delivered>>
    /\ UNCHANGED <<groupVars, sortVars, parVars, extVars>>

ReferenceLists == UNION {[S -> Contents] : S \in SUBSET RefIds}

\* Processor::set_references, on the database
set_references(refs) ==
    /\ reference_input' =
         [r \in RefIds |-> IF r \in DOMAIN refs THEN refs[r] ELSE reference_input[r]]
    /\ all_keys' = DOMAIN refs
    /\ built' = Invalidate(built, {ReferenceKey(r) : r \in DOMAIN refs} \cup {AllKeysKey})

SetReferences(refs) ==
    /\ Call
    /\ set_references(refs)
    /\ library' = [r \in RefIds |-> IF r \in DOMAIN refs THEN refs[r] ELSE NoRef]
    /\ history' = Mutated
    /\ lastOp' = Op("set_references")
    /\ UNCHANGED <<style, save_updates, cluster_ids, cluster_cites,
                   cluster_note_number, queue>>
    /\ UNCHANGED <<executed, delivered>>
    /\ UNCHANGED <<groupVars, sortVars, parVars, extVars>>

\* Processor::insert_reference
InsertReference(r, content) ==
    /\ Call
    /\ set_references([k \in {r} |-> content])
    /\ library' = [library EXCEPT ![r] = content]
    /\ history' = Mutated
    /\ lastOp' = Op("insert_reference")
    /\ UNCHANGED <<style, save_updates, cluster_ids, cluster_cites,
                   cluster_note_number, queue>>
    /\ UNCHANGED <<executed, delivered>>
    /\ UNCHANGED <<groupVars, sortVars, parVars, extVars>>

Cluster(id, number, cites) == [id |-> id, number |-> number, cites |-> cites]
\* The clusters a caller hands over are notes; renumber_clusters moves them.
Clusters == {Cluster(id, Note(1), cs) : id \in ClusterIds, cs \in CiteLists}

\* The documents a caller hands over: clusters with distinct ids.
MaxClusters == 2
Documents ==
    {d \in UNION {[1..n -> Clusters] : n \in 0..MaxClusters} :
        \A i, j \in DOMAIN d : i # j => d[i].id # d[j].id}

LastWith(clusters, c) ==
    clusters[CHOOSE i \in DOMAIN clusters :
        /\ clusters[i].id = c
        /\ \A j \in DOMAIN clusters : clusters[j].id = c => j <= i]

\* Processor::init_clusters
InitClusters(clusters) ==
    LET ids == {clusters[i].id : i \in DOMAIN clusters} IN
    /\ Call
    /\ cluster_cites' =
         [c \in ClusterIds |->
            IF c \in ids THEN LastWith(clusters, c).cites ELSE cluster_cites[c]]
    /\ cluster_note_number' =
         [c \in ClusterIds |->
            IF c \in ids THEN LastWith(clusters, c).number ELSE cluster_note_number[c]]
    /\ cluster_ids' = [i \in DOMAIN clusters |-> clusters[i].id]
    /\ built' = Invalidate(built,
                   {CitesKey(c) : c \in ids} \cup {NumberKey(c) : c \in ids}
                   \cup {ClusterIdsKey})
    /\ history' = Mutated
    /\ lastOp' = Op("init_clusters")
    /\ UNCHANGED <<style, save_updates, reference_input, all_keys, queue>>
    /\ UNCHANGED <<library, executed, delivered>>
    /\ UNCHANGED <<groupVars, sortVars, parVars, extVars>>

\* Processor::remove_cluster
RemoveCluster(id) ==
    /\ Call
    /\ cluster_cites' = [cluster_cites EXCEPT ![id] = <<>>]
    /\ cluster_note_number' = [cluster_note_number EXCEPT ![id] = InText(0)]
    /\ cluster_ids' = LET Keep(c) == c # id IN SelectSeq(cluster_ids, Keep)
    /\ built' = Invalidate(built, {CitesKey(id), NumberKey(id), ClusterIdsKey})
    /\ history' = Mutated
    /\ lastOp' = Op("remove_cluster")
    /\ UNCHANGED <<style, save_updates, reference_input, all_keys, queue>>
    /\ UNCHANGED <<library, executed, delivered>>
    /\ UNCHANGED <<groupVars, sortVars, parVars, extVars>>

\* A plausible slip: the id is pushed without the contains() test.
InsertCluster_alwaysAppends(cluster) ==
    /\ Call
    /\ cluster_ids' = Append(cluster_ids, cluster.id)
    /\ cluster_cites' = [cluster_cites EXCEPT ![cluster.id] = cluster.cites]
    /\ cluster_note_number' = [cluster_note_number EXCEPT ![cluster.id] = cluster.number]
    /\ built' = Invalidate(built,
                   {CitesKey(cluster.id), NumberKey(cluster.id), ClusterIdsKey})
    /\ history' = Mutated
    /\ lastOp' = Op("insert_cluster")
    /\ UNCHANGED <<style, save_updates, reference_input, all_keys, queue>>
    /\ UNCHANGED <<library, executed, delivered>>
    /\ UNCHANGED <<groupVars, sortVars, parVars, extVars>>

\* Processor::insert_cluster
InsertCluster(cluster) ==
    /\ Call
    /\ cluster_ids' = IF cluster.id \in Range(cluster_ids) THEN cluster_ids
                      ELSE Append(cluster_ids, cluster.id)
    /\ cluster_cites' = [cluster_cites EXCEPT ![cluster.id] = cluster.cites]
    /\ cluster_note_number' = [cluster_note_number EXCEPT ![cluster.id] = cluster.number]
    /\ built' = Invalidate(built,
                   {CitesKey(cluster.id), NumberKey(cluster.id)}
                   \cup (IF cluster.id \in Range(cluster_ids) THEN {}
                         ELSE {ClusterIdsKey}))
    /\ history' = Mutated
    /\ lastOp' = Op("insert_cluster")
    /\ UNCHANGED <<style, save_updates, reference_input, all_keys, queue>>
    /\ UNCHANGED <<library, executed, delivered>>
    /\ UNCHANGED <<groupVars, sortVars, parVars, extVars>>

Mappings == UNION {[S -> ClusterNumbers] : S \in (SUBSET ClusterIds) \ {{}}}

\* Processor::renumber_clusters
RenumberClusters(mappings) ==
    /\ Call
    /\ cluster_note_number' =
         [c \in ClusterIds |->
            IF c \in DOMAIN mappings THEN mappings[c] ELSE cluster_note_number[c]]
    /\ built' = Invalidate(built, {NumberKey(c) : c \in DOMAIN mappings})
    /\ history' = Mutated
    /\ lastOp' = Op("renumber_clusters")
    /\ UNCHANGED <<style, save_updates, reference_input, all_keys, cluster_ids,
                   cluster_cites, queue>>
    /\ UNCHANGED <<library, executed, delivered>>
    /\ UNCHANGED <<groupVars, sortVars, parVars, extVars>>

(* ---- queries and update batches ---- *)
\* Processor::get_cluster
GetCluster(c, validate) ==
    LET m == QueryBuilt([built |-> built, events |-> <<>>], c, validate) IN
    /\ Call
    /\ CanBuild(c)
    /\ Len(executed \o ExecutedIn(m.events)) <= MaxQueue
    /\ built' = m.built
    /\ queue' = ApplyEvents(queue, m.events)
    /\ executed' = executed \o ExecutedIn(m.events)
    /\ delivered' = [delivered EXCEPT ![c] = m.built[c].val]
    /\ history' = [history EXCEPT !.strayRead = @ \/ c \notin Range(cluster_ids)]
    /\ lastOp' = Op("get_cluster")
    /\ UNCHANGED <<inputVars, save_updates, library>>
    /\ UNCHANGED <<groupVars, sortVars, parVars, extVars>>

\* Processor::compute, called by itself
Compute ==
    \E order \in Orders(cluster_ids), V \in SUBSET Range(cluster_ids) :
      LET m == compute(order, V) IN
      /\ Call
      /\ Len(executed \o ExecutedIn(m.events)) <= MaxQueue
      /\ built' = m.built
      /\ queue' = ApplyEvents(queue, m.events)
      /\ executed' = executed \o ExecutedIn(m.events)
      /\ lastOp' = [Op("compute") EXCEPT !.computed = m.events # <<>>]
      /\ UNCHANGED <<inputVars, save_updates, library, delivered, history>>
      /\ UNCHANGED <<groupVars, sortVars, parVars, extVars>>

\* Processor::batched_updates
BatchedUpdates ==
    \E order \in Orders(cluster_ids), V \in SUBSET Range(cluster_ids) :
      /\ Call
      /\ IF ~save_updates
         THEN /\ lastOp' = Op("batched_updates")
              /\ UNCHANGED <<procVars, library, executed, delivered, history>>
              /\ UNCHANGED <<groupVars, sortVars, parVars, extVars>>
         ELSE LET m  == compute(order, V)
                  q1 == ApplyEvents(queue, m.events)
                  sm == summarize(q1)
              IN  /\ Len(executed \o ExecutedIn(m.events)) <= MaxQueue
                  /\ SummarizeReturns(m.built, q1)
                  /\ built' = m.built
                  /\ queue' = <<>>
                  /\ executed' = <<>>
                  /\ delivered' =
                       [c \in ClusterIds |->
                          IF c \in SummaryIds(sm) THEN BuiltNow(c) ELSE delivered[c]]
                  /\ history' = Cleared("batched_updates")
                  /\ lastOp' = [err |-> FALSE, op       |-> "batched_updates",
                                ids      |-> SummaryIds(sm),
                                recorded |-> Range(executed \o ExecutedIn(m.events)),
                                missed   |-> Changed \ SummaryIds(sm),
                                computed |-> m.events # <<>>,
                                before   |-> history]
                  /\ UNCHANGED <<inputVars, save_updates, library>>
                  /\ UNCHANGED <<groupVars, sortVars, parVars, extVars>>

\* Processor::drain
Drain ==
    \E order \in Orders(cluster_ids), V \in SUBSET Range(cluster_ids) :
      LET m == compute(order, V) IN
      /\ Call
      /\ Len(executed \o ExecutedIn(m.events)) <= MaxQueue
      /\ built' = m.built
      /\ queue' = <<>>
      /\ executed' = <<>>
      /\ history' = Cleared("drain")
      /\ lastOp' = [Op("drain") EXCEPT !.computed = m.events # <<>>]
      /\ UNCHANGED <<inputVars, save_updates, library, delivered>>
      /\ UNCHANGED <<groupVars, sortVars, parVars, extVars>>

(* JsExecutor::get_results: the update batch, then get_cluster for every    *)
(* cluster of the document that the batch did not report.                   *)
GetResults ==
    \E order \in Orders(cluster_ids), V \in SUBSET Range(cluster_ids) :
      /\ Call
      /\ IF ~save_updates
         THEN LET m == QueryAll([built |-> built, events |-> <<>>], order, V) IN
              /\ Len(executed \o ExecutedIn(m.events)) <= MaxQueue
              /\ built' = m.built
              /\ queue' = ApplyEvents(queue, m.events)
              /\ executed' = executed \o ExecutedIn(m.events)
              /\ delivered' =
                   [c \in ClusterIds |->
                      IF c \in Range(cluster_ids) THEN m.built[c].val ELSE delivered[c]]
              /\ lastOp' = [Op("get_results") EXCEPT !.missed = Changed]
              /\ UNCHANGED <<inputVars, save_updates, library, history>>
              /\ UNCHANGED <<groupVars, sortVars, parVars, extVars>>
         ELSE LET m  == compute(order, V)
                  q1 == ApplyEvents(queue, m.events)
                  sm == summarize(q1)
                  b1 == m.built
              IN  /\ Len(executed \o ExecutedIn(m.events)) <= MaxQueue
                  /\ SummarizeReturns(m.built, q1)
                  /\ built' = b1
                  /\ queue' = <<>>
                  /\ executed' = <<>>
                  /\ delivered' =
                       [c \in ClusterIds |->
                          IF c \in SummaryIds(sm) THEN BuiltNow(c)
                          ELSE IF c \in Range(cluster_ids) THEN b1[c].val
                          ELSE delivered[c]]
                  /\ history' = Cleared("batched_updates")
                  /\ lastOp' = [err |-> FALSE, op       |-> "get_results",
                                ids      |-> SummaryIds(sm),
                                recorded |-> Range(executed \o ExecutedIn(m.events)),
                                missed   |-> Changed \ SummaryIds(sm),
                                computed |-> m.events # <<>>,
                                before   |-> history]
                  /\ UNCHANGED <<inputVars, save_updates, library>>
                  /\ UNCHANGED <<groupVars, sortVars, parVars, extVars>>

\* The calls of a caller that never discards updates and reads every
\* cluster through get_results.
MutNext ==
    \/ \E text \in StyleTexts : SetStyleText(text)
    \/ \E refs \in ReferenceLists : SetReferences(refs)
    \/ \E r \in RefIds, content \in Contents : InsertReference(r, content)
    \/ \E clusters \in Documents : InitClusters(clusters)
    \/ \E id \in ClusterIds : RemoveCluster(id)
    \/ \E cluster \in Clusters : InsertCluster(cluster)
    \/ \E mappings \in Mappings : RenumberClusters(mappings)
    \/ GetResults

ProcNext ==
    \/ \E text \in StyleTexts : SetStyleText(text)
    \/ \E refs \in ReferenceLists : SetReferences(refs)
    \/ \E r \in RefIds, content \in Contents : InsertReference(r, content)
    \/ \E clusters \in Documents : InitClusters(clusters)
    \/ \E id \in ClusterIds : RemoveCluster(id)
    \/ \E cluster \in Clusters : InsertCluster(cluster)
    \/ \E mappings \in Mappings : RenumberClusters(mappings)
    \/ \E c \in ClusterIds, validate \in BOOLEAN : GetCluster(c, validate)
    \/ Compute
    \/ BatchedUpdates
    \/ Drain
    \/ GetResults

(***************************************************************************)
(*        compute() and batched_updates() thread by thread                 *)
(***************************************************************************)
\* The owner thread, rayon's pool threads (each with the snapshot that
\* for_each_with clones for it), and a thread that was handed a snapshot.
Owner == "main"
Workers == {"w1", "w2"}
Reader == "rd"
Threads == {Owner, Reader} \cup Workers

Idle == [st |-> "idle", key |-> 0]

Counters == [c \in ClusterIds |-> 0]

Count(q, c) == Cardinality({i \in 1..Len(q) : q[i] = DocUpdateCluster(c)})

\* The cite of each cluster of the document stands for the cluster's cites.
all_cite_ids == {c \in Range(cluster_ids) : cluster_cites[c] # <<>>}

\* Both clusters are in the document, or the second one was taken out of it.
ParDocuments == {<<1, 2>>, <<1>>}

ParInit ==
    /\ rayon \in BOOLEAN
    /\ save_updates \in BOOLEAN
    /\ style = "s1"
    /\ reference_input = [r \in RefIds |-> 1]
    /\ all_keys = RefIds
    /\ cluster_ids \in ParDocuments
    /\ cluster_cites = [c \in ClusterIds |-> <<RefOrder[c]>>]
    /\ cluster_note_number = [c \in ClusterIds |-> Note(1)]
    /\ built = [c \in ClusterIds |-> [st |-> "none", val |-> NoOutput]]
    /\ queue = <<>>
    /\ pc = "idle"
    /\ lock = "free"
    /\ thr = [t \in Threads |-> Idle]
    /\ todo = {}
    /\ irMemo = [c \in ClusterIds |-> "none"]
    /\ ysMemo = "none"
    /\ seen = <<>>
    /\ started = Counters
    /\ pushed = Counters
    /\ consumed = Counters
    /\ lost = {}

ParFrame ==
    UNCHANGED <<groupVars, sortVars, rayon, save_updates, reference_input,
                all_keys, cluster_ids, cluster_cites, cluster_note_number,
                library, executed, delivered, lastOp, history, extVars>>

\* Every event takes the queue's mutex in salsa_event when save_updates is
\* on; an event that is not a built_cluster execution releases it at once.
OtherEventPasses == ~save_updates \/ lock = "free"

\* batched_updates, up to its call of compute
BeginBatch ==
    /\ pc = "idle"
    /\ Call
    /\ IF ~save_updates
       THEN UNCHANGED <<pc, todo>>
       ELSE /\ pc' = IF rayon THEN "ir" ELSE "seq"
            /\ todo' = IF rayon THEN all_cite_ids ELSE Range(cluster_ids)
    /\ UNCHANGED <<style, built, queue, lock, thr, irMemo, ysMemo, seen,
                   started, pushed, consumed, lost>>
    /\ ParFrame

\* compute, first loop: a pool thread takes a cite and generates its IR.
TakeIr(w, cite) ==
    /\ pc = "ir"
    /\ thr[w] = Idle
    /\ cite \in todo
    /\ todo' = todo \ {cite}
    /\ IF irMemo[cite] = "done"
       THEN UNCHANGED <<thr, irMemo>>
       ELSE /\ OtherEventPasses
            /\ irMemo' = [irMemo EXCEPT ![cite] = "running"]
            /\ thr' = [thr EXCEPT ![w] = [st |-> "ir", key |-> cite]]
    /\ UNCHANGED <<style, built, queue, pc, lock, ysMemo, seen, started,
                   pushed, consumed, lost, calls>>
    /\ ParFrame

FinishIr(w) ==
    /\ thr[w].st = "ir"
    /\ irMemo' = [irMemo EXCEPT ![thr[w].key] = "done"]
    /\ thr' = [thr EXCEPT ![w] = Idle]
    /\ UNCHANGED <<style, built, queue, pc, lock, todo, ysMemo, seen, started,
                   pushed, consumed, lost, calls>>
    /\ ParFrame

\* A plausible slip: year_suffixes does not wait for the first loop.
StartYearSuffixes_noJoin ==
    /\ pc = "ir"
    /\ IF ysMemo = "done"
       THEN /\ pc' = "build" /\ todo' = Range(cluster_ids)
            /\ UNCHANGED ysMemo
       ELSE /\ OtherEventPasses
            /\ pc' = "ys" /\ ysMemo' = "running"
            /\ UNCHANGED todo
    /\ UNCHANGED <<style, built, queue, lock, thr, irMemo, seen, started,
                   pushed, consumed, lost, calls>>
    /\ ParFrame

\* compute, self.year_suffixes(): after the first loop has joined.
StartYearSuffixes ==
    /\ pc = "ir"
    /\ todo = {}
    /\ \A w \in Workers : thr[w] = Idle
    /\ IF ysMemo = "done"
       THEN /\ pc' = "build" /\ todo' = Range(cluster_ids)
            /\ UNCHANGED ysMemo
       ELSE /\ OtherEventPasses
            /\ pc' = "ys" /\ ysMemo' = "running"
            /\ UNCHANGED todo
    /\ UNCHANGED <<style, built, queue, lock, thr, irMemo, seen, started,
                   pushed, consumed, lost, calls>>
    /\ ParFrame

FinishYearSuffixes ==
    /\ pc = "ys"
    /\ ysMemo' = "done"
    /\ irMemo' = [c \in ClusterIds |-> IF c \in all_cite_ids THEN "done" ELSE irMemo[c]]
    /\ pc' = "build"
    /\ todo' = Range(cluster_ids)
    /\ UNCHANGED <<style, built, queue, lock, thr, seen, started, pushed,
                   consumed, lost, calls>>
    /\ ParFrame

(* The query built_cluster(c) on thread t: a fresh memo is returned, a memo *)
(* another thread is computing is waited for, and otherwise the query runs, *)
(* starting with its WillExecute event.                                     *)
Query(t, c) ==
    /\ thr[t] = Idle
    /\ built[c].st # "running"
    /\ IF built[c].st = "fresh"
       THEN UNCHANGED <<built, thr, started>>
       ELSE /\ built' = [built EXCEPT ![c].st = "running"]
            /\ thr' = [thr EXCEPT ![t] = [st |-> "event", key |-> c]]
            /\ started' = [started EXCEPT ![c] = @ + 1]

\* compute, second loop: a pool thread takes a cluster and builds it.
TakeBuild(w, c) ==
    /\ pc = "build"
    /\ c \in todo
    /\ Query(w, c)
    /\ todo' = todo \ {c}
    /\ UNCHANGED <<style, queue, pc, lock, irMemo, ysMemo, seen, pushed,
                   consumed, lost, calls>>
    /\ ParFrame

\* compute without rayon: the owner builds the clusters in document order.
SeqBuild(c) ==
    /\ pc = "seq"
    /\ c \in todo
    /\ \A i, j \in DOMAIN cluster_ids :
          (cluster_ids[j] = c /\ i < j) => cluster_ids[i] \notin todo
    /\ Query(Owner, c)
    /\ todo' = todo \ {c}
    /\ UNCHANGED <<style, queue, pc, lock, irMemo, ysMemo, seen, pushed,
                   consumed, lost, calls>>
    /\ ParFrame

\* A thread with a snapshot of its own asks for a cluster.
ReaderBuild(c) ==
    /\ rayon
    /\ CanBuild(c)
    /\ built[c].st # "fresh"
    /\ Query(Reader, c)
    /\ UNCHANGED <<style, queue, pc, lock, todo, irMemo, ysMemo, seen, pushed,
                   consumed, lost, calls>>
    /\ ParFrame

\* salsa_event: if !self.save_updates { return; }
EventOff(t) ==
    /\ thr[t].st = "event"
    /\ ~save_updates
    /\ thr' = [thr EXCEPT ![t].st = "exec"]
    /\ UNCHANGED <<style, built, queue, pc, lock, todo, irMemo, ysMemo, seen,
                   started, pushed, consumed, lost, calls>>
    /\ ParFrame

\* A plausible slip: the queue is pushed to without taking its mutex.
Acquire_noMutex(t) ==
    /\ thr[t].st = "event"
    /\ save_updates
    /\ thr' = [thr EXCEPT ![t].st = "locked"]
    /\ UNCHANGED <<style, built, queue, pc, lock, todo, irMemo, ysMemo, seen,
                   started, pushed, consumed, lost, calls>>
    /\ ParFrame

\* salsa_event: let mut q = self.queue.lock();
Acquire(t) ==
    /\ thr[t].st = "event"
    /\ save_updates
    /\ lock = "free"
    /\ lock' = t
    /\ thr' = [thr EXCEPT ![t].st = "locked"]
    /\ UNCHANGED <<style, built, queue, pc, todo, irMemo, ysMemo, seen,
                   started, pushed, consumed, lost, calls>>
    /\ ParFrame

\* salsa_event: q.push(upd)
Push(t) ==
    /\ thr[t].st = "locked"
    /\ queue' = salsa_event(queue, WillExecute("built_cluster", thr[t].key))
    /\ pushed' = [c \in ClusterIds |-> pushed[c] + Count(queue', c) - Count(queue, c)]
    /\ thr' = [thr EXCEPT ![t].st = "pushed"]
    /\ UNCHANGED <<style, built, pc, lock, todo, irMemo, ysMemo, seen, started,
                   consumed, lost, calls>>
    /\ ParFrame

\* salsa_event: the guard q is dropped
Release(t) ==
    /\ thr[t].st = "pushed"
    /\ lock' = IF lock = t THEN "free" ELSE lock
    /\ thr' = [thr EXCEPT ![t].st = "exec"]
    /\ UNCHANGED <<style, built, queue, pc, todo, irMemo, ysMemo, seen,
                   started, pushed, consumed, lost, calls>>
    /\ ParFrame

\* The execution of built_cluster ends; the IRs of the cites and the year
\* suffixes it asked for on the way are memoized by now.
Finish(t) ==
    /\ thr[t].st = "exec"
    /\ ysMemo # "running"
    /\ \A c \in ClusterIds : irMemo[c] # "running"
    /\ built' = [built EXCEPT ![thr[t].key] =
                    [st |-> "fresh", val |-> BuiltNow(thr[t].key)]]
    /\ irMemo' = [c \in ClusterIds |-> IF c \in all_cite_ids THEN "done" ELSE irMemo[c]]
    /\ ysMemo' = "done"
    /\ thr' = [thr EXCEPT ![t] = Idle]
    /\ UNCHANGED <<style, queue, pc, lock, todo, seen, started, pushed,
                   consumed, lost, calls>>
    /\ ParFrame

\* compute returns once its loop has joined.
EndCompute ==
    /\ pc \in {"build", "seq"}
    /\ todo = {}
    /\ \A t \in Workers \cup {Owner} : thr[t] = Idle
    /\ pc' = "lock"
    /\ UNCHANGED <<style, built, queue, lock, thr, todo, irMemo, ysMemo, seen,
                   started, pushed, consumed, lost, calls>>
    /\ ParFrame

\* batched_updates: let mut queue = self.queue.lock();
ConsumerLock ==
    /\ pc = "lock"
    /\ lock = "free"
    /\ lock' = Owner
    /\ pc' = "summarize"
    /\ UNCHANGED <<style, built, queue, thr, todo, irMemo, ysMemo, seen,
                   started, pushed, consumed, lost, calls>>
    /\ ParFrame

\* batched_updates: UpdateSummary::summarize(self, &*queue)
Summarize ==
    /\ pc = "summarize"
    /\ SummarizeReturns(built, queue)
    /\ seen' = queue
    /\ pc' = "clear"
    /\ UNCHANGED <<style, built, queue, lock, thr, todo, irMemo, ysMemo,
                   started, pushed, consumed, lost, calls>>
    /\ ParFrame

\* batched_updates: queue.clear()
Clear ==
    /\ pc = "clear"
    /\ consumed' = [c \in ClusterIds |-> consumed[c] + Count(queue, c)]
    /\ lost' = lost \cup (SummaryIds(summarize(queue)) \ SummaryIds(summarize(seen)))
    /\ queue' = <<>>
    /\ pc' = "unlock"
    /\ UNCHANGED <<style, built, lock, thr, todo, irMemo, ysMemo, seen,
                   started, pushed, calls>>
    /\ ParFrame

\* batched_updates returns: the guard is dropped.
ConsumerUnlock ==
    /\ pc = "unlock"
    /\ lock' = "free"
    /\ pc' = "idle"
    /\ UNCHANGED <<style, built, queue, thr, todo, irMemo, ysMemo, seen,
                   started, pushed, consumed, lost, calls>>
    /\ ParFrame

\* set_style_text between two batches: it waits for the snapshots to be
\* dropped, and every derived value is stale after it.
Restyle(text) ==
    /\ pc = "idle"
    /\ \A t \in Threads : thr[t] = Idle
    /\ Call
    /\ text # style
    /\ StyleFromStr(text).st = "some"
    /\ style' = StyleFromStr(text).v
    /\ built' = Invalidate(built, {StyleKey})
    /\ irMemo' = [c \in ClusterIds |-> "none"]
    /\ ysMemo' = "none"
    /\ UNCHANGED <<queue, pc, lock, thr, todo, seen, started, pushed,
                   consumed, lost>>
    /\ ParFrame

ParNext ==
    \/ BeginBatch
    \/ \E w \in Workers, cite \in ClusterIds : TakeIr(w, cite)
    \/ \E w \in Workers : FinishIr(w)
    \/ StartYearSuffixes
    \/ FinishYearSuffixes
    \/ \E w \in Workers, c \in ClusterIds : TakeBuild(w, c)
    \/ \E c \in ClusterIds : SeqBuild(c)
    \/ \E c \in ClusterIds : ReaderBuild(c)
    \/ \E t \in Threads : EventOff(t)
    \/ \E t \in Threads : Acquire(t)
    \/ \E t \in Threads : Push(t)
    \/ \E t \in Threads : Release(t)
    \/ \E t \in Threads : Finish(t)
    \/ EndCompute
    \/ ConsumerLock
    \/ Summarize
    \/ Clear
    \/ ConsumerUnlock
    \/ \E text \in StyleTexts : Restyle(text)

(***************************************************************************)
(*      Construction and the test executor  (db/mod.rs, tests/suite.rs,    *)
(*      test-utils/src/lib.rs)                                             *)
(***************************************************************************)
OkV(v) == [st |-> "ok", v |-> v]
Err(e) == [st |-> "err", err |-> e]

\* enum SupportedFormat
SupportedFormat == {"Html", "Rtf", "TestHtml"}

\* impl FromStr for SupportedFormat
SupportedFormatFromStr(s) ==
    CASE s = "html" -> OkV("Html")
      [] s = "rtf"  -> OkV("Rtf")
      [] OTHER      -> Err(<<>>)

\* impl Deserialize for SupportedFormat
SupportedFormatDeserialize(s) ==
    IF SupportedFormatFromStr(s).st = "ok" THEN SupportedFormatFromStr(s)
    ELSE Err(<<"unknown format", s>>)

\* The format names a test case may carry; Absent: the key is missing.
FormatNames == {"html", "rtf", "plain-test", "text"}
Absent == "(absent)"

\* TestCase.format: #[serde(default)] over Format::default()
TestCaseFormat(field) ==
    IF field = Absent THEN OkV("TestHtml") ELSE SupportedFormatDeserialize(field)

\* The formatter new() chooses for a format.
Markup(fmt) ==
    CASE fmt = "Html" -> "Markup::html()"
      [] fmt = "Rtf"  -> "Markup::rtf()"
      [] fmt = "TestHtml" -> "Markup::Html(HtmlOptions::test_suite())"

\* Processor::new with "?" dropped: the database is returned whatever
\* Style::from_str says
new_ignoresStyleError(style_string, su, fmt) ==
    [st |-> "ok",
     v  |-> [style |-> IF StyleFromStr(style_string).st = "some"
                       THEN StyleFromStr(style_string).v ELSE "s1",
             save_updates |-> su, formatter |-> Markup(fmt), queue |-> <<>>]]

\* Processor::new: the database, or the error of Style::from_str
new(style_string, su, fmt) ==
    IF StyleFromStr(style_string).st = "some"
    THEN OkV([style |-> StyleFromStr(style_string).v, save_updates |-> su,
              formatter |-> Markup(fmt), queue |-> <<>>])
    ELSE Err("StyleError")

(* ---- the citation items of an instruction ---- *)
CitationItem(id, label, suppress_author, author_only) ==
    [id |-> id, label |-> label, suppress_author |-> suppress_author,
     author_only |-> author_only]

\* LocatorType::from_str
LocatorTypes == {"page"}
Labels == {"none", "page", "bogus"}

Panic == [st |-> "panic"]

\* CitationItem::to_cite
to_cite(item, n) ==
    IF item.label # "none" /\ item.label \notin LocatorTypes THEN Panic
    ELSE IF item.suppress_author /\ item.author_only THEN Panic
    ELSE OkV([id |-> n, ref_id |-> item.id,
              locators |-> IF item.label = "none" THEN <<>> ELSE <<item.label>>,
              suppression |->
                  CASE ~item.suppress_author /\ item.author_only -> "InText"
                    [] item.suppress_author /\ ~item.author_only -> "Rest"
                    [] OTHER -> "None"])

CitationItems ==
    {CitationItem("r1", "none", s, a) : s, a \in BOOLEAN}
    \cup {CitationItem("r2", "page", FALSE, FALSE),
          CitationItem("r2", "bogus", FALSE, FALSE)}

ClusterNames == {"a", "b"}
NoteIndexes == {0, 1}

Instruction(cluster_id, note_index, items) ==
    [cluster_id |-> cluster_id, note_index |-> note_index, citation_items |-> items]

Instructions ==
    {Instruction(c, n, items) :
        c \in ClusterNames, n \in NoteIndexes,
        items \in UNION {[1..k -> CitationItems] : k \in 0..MaxCites}}

\* The cites built before the first item that panics, and whether one did.
RECURSIVE ToCites(_, _, _)
ToCites(items, n, done) ==
    IF items = <<>> THEN [panicked |-> FALSE, cites |-> done]
    ELSE IF to_cite(Head(items), n) = Panic THEN [panicked |-> TRUE, cites |-> done]
    ELSE ToCites(Tail(items), n + 1, Append(done, to_cite(Head(items), n).v))

\* A u32 note number as the database's ClusterNumber.
NumberOf(n) == IF n = 0 THEN InText(0) ELSE Note(n)

Known(numbers) == {c \in ClusterIds : numbers[c] # NoNumber}

\* sort_by_key on the note numbers: the orders of ids it may leave.
SortedByNumber(ids, numbers) ==
    {o \in [1..Cardinality(ids) -> ids] :
        /\ \A i, j \in DOMAIN o : i # j => o[i] # o[j]
        /\ \A i, j \in DOMAIN o : i < j => numbers[o[i]].n <= numbers[o[j]].n}

SuiteInit ==
    /\ format = [st |-> "unread"]
    /\ made = [st |-> "none"]
    /\ n_cite = 1
    /\ next_id = 1
    /\ cluster_ids_mapping = [c \in ClusterNames |-> 0]
    /\ current_note_numbers = [c \in ClusterIds |-> NoNumber]
    /\ last_cites = <<>>
    /\ instruction = [st |-> "none"]

\* Deserializing the format of a test case.
ReadFormat(field) ==
    /\ format.st = "unread"
    /\ format' = [name |-> field, st |-> TestCaseFormat(field).st,
                  res |-> TestCaseFormat(field)]
    /\ UNCHANGED <<made, n_cite, next_id, cluster_ids_mapping, current_note_numbers,
                   last_cites, instruction>>
    /\ UNCHANGED <<coreVars, notSuite>>

\* TestCase::execute: Processor::new(&self.csl, fet, true, self.format.0)
New(style_string) ==
    LET r == new(style_string, TRUE, format.res.v) IN
    /\ format.st = "ok"
    /\ made.st = "none"
    /\ Call
    /\ made' = [st |-> r.st, style_string |-> style_string,
                formatter |-> IF r.st = "ok" THEN r.v.formatter ELSE "none"]
    /\ IF r.st = "ok"
       THEN /\ style' = r.v.style
            /\ save_updates' = r.v.save_updates
            /\ queue' = r.v.queue
       ELSE UNCHANGED <<style, save_updates, queue>>
    /\ lastOp' = [Op("new") EXCEPT !.err = r.st = "err"]
    /\ UNCHANGED <<reference_input, all_keys, cluster_ids, cluster_cites,
                   cluster_note_number, built>>
    /\ UNCHANGED <<library, executed, delivered, history>>
    /\ UNCHANGED <<format, n_cite, next_id, cluster_ids_mapping,
                   current_note_numbers, last_cites, instruction>>
    /\ UNCHANGED <<groupVars, sortVars, parVars, notSuite>>

Constructed == made.st = "ok"

SuiteSetStyleText == Constructed /\ \E text \in StyleTexts : SetStyleText(text)

SuiteSetReferences == Constructed /\ \E refs \in ReferenceLists : SetReferences(refs)

FormatResults == Constructed /\ GetResults

(* JsExecutor::execute: drain, then the cites of the instruction, then the *)
(* cluster is put in place and the notes are renumbered.                   *)
Execute ==
    \E instr \in Instructions, order \in Orders(cluster_ids),
       V \in SUBSET Range(cluster_ids) :
      LET m == compute(order, V)                                  \* self.proc.drain()
          name == instr.cluster_id
          fresh == cluster_ids_mapping[name] = 0
          id == IF fresh THEN next_id ELSE cluster_ids_mapping[name]   \* get_id
          note_number == instr.note_index
          built_cites == ToCites(instr.citation_items, n_cite, <<>>)
          cites == built_cites.cites
          wasKnown == id \in Known(current_note_numbers)
          listed == Known(current_note_numbers)
                    \cup (IF note_number # 0 /\ ~wasKnown THEN {id} ELSE {})
          numbers1 == [current_note_numbers EXCEPT ![id] = NumberOf(note_number)]
      IN
      /\ Constructed
      /\ Call
      /\ Len(executed \o ExecutedIn(m.events)) <= MaxQueue
      /\ id \in ClusterIds
      /\ instruction' = instr
      /\ queue' = <<>>
      /\ executed' = <<>>
      /\ cluster_ids_mapping' = [cluster_ids_mapping EXCEPT ![name] = id]
      /\ next_id' = IF fresh THEN next_id + 1 ELSE next_id
      /\ n_cite' = n_cite + Len(cites)
      /\ IF built_cites.panicked
         THEN /\ built' = m.built
              /\ history' = Cleared("drain")
              /\ lastOp' = [Op("execute") EXCEPT !.err = TRUE,
                                                 !.computed = m.events # <<>>]
              /\ UNCHANGED <<inputVars, current_note_numbers, last_cites>>
         ELSE \E o \in SortedByNumber(listed, numbers1) :
              LET numbers2 == [c \in ClusterIds |->
                                 IF c \in listed
                                 THEN Note(CHOOSE i \in DOMAIN o : o[i] = c)
                                 ELSE numbers1[c]]
              IN
              /\ last_cites' = cites
              \* replace_cluster / insert_cluster
              /\ cluster_ids' = IF id \in Range(cluster_ids) THEN cluster_ids
                                ELSE Append(cluster_ids, id)
              /\ cluster_cites' =
                   [cluster_cites EXCEPT ![id] = [i \in 1..Len(cites) |-> cites[i].ref_id]]
              \* renumber_clusters
              /\ current_note_numbers' = numbers2
              /\ cluster_note_number' = numbers2
              /\ built' = Invalidate(m.built,
                             {CitesKey(id), NumberKey(id)}
                             \cup {NumberKey(c) : c \in listed}
                             \cup (IF id \in Range(cluster_ids) THEN {}
                                   ELSE {ClusterIdsKey}))
              /\ history' = [Cleared("drain") EXCEPT !.mutated = TRUE]
              /\ lastOp' = [Op("execute") EXCEPT !.computed = m.events # <<>>]
              /\ UNCHANGED <<style, reference_input, all_keys>>
      /\ UNCHANGED <<save_updates, library, delivered>>
      /\ UNCHANGED <<format, made>>
      /\ UNCHANGED <<groupVars, sortVars, parVars, notSuite>>

SuiteNext ==
    \/ \E field \in FormatNames \cup {Absent} : ReadFormat(field)
    \/ \E style_string \in StyleTexts : New(style_string)
    \/ SuiteSetStyleText
    \/ SuiteSetReferences
    \/ Execute
    \/ FormatResults

(***************************************************************************)
(*               Name particles  (crates/io/src/names.rs)                  *)
(*                                                                         *)
(* U+2019 (right single quotation mark) is written "U2019" and U+02BB      *)
(* (modifier letter turned comma) "U02BB"; each is one character.          *)
(***************************************************************************)
LowerChars == {"a", "b", "c", "d", "e", "f", "g", "h", "i", "j", "k", "l", "m",
               "n", "o", "p", "q", "r", "s", "t", "u", "v", "w", "x", "y", "z"}

is_whitespace(c) == c = " "
is_lowercase(c) == c \in LowerChars

WhiteSpace == {" "}

\* chars().rev().collect()
rev(s) == [i \in 1..Len(s) |-> s[Len(s) + 1 - i]]

\* Number of leading characters of s that are not whitespace (\S+, greedy).
RECURSIVE NonWsRun(_)
NonWsRun(s) == IF s = <<>> \/ is_whitespace(s[1]) THEN 0 ELSE 1 + NonWsRun(Tail(s))

\* Number of leading whitespace characters of s (\s*, greedy).
WsRun(s) == CountWhile(WhiteSpace, s)

trim_start(s) == Drop(s, WsRun(s))
trim_end(s) == rev(trim_start(rev(s)))
trim(s) == trim_end(trim_start(s))

\* crate::lazy_replace_char(s, '\'', "\u{2019}")
replace_apostrophes(s) == [i \in 1..Len(s) |-> IF s[i] = "'" THEN "U2019" ELSE s[i]]

\* family_particles_re with the separator alternatives cut down to \s
family_particles_re_spaceOnly(slice) ==
    LET r == NonWsRun(slice)
    IN  IF r = 0 \/ r = Len(slice) THEN 0 ELSE r + WsRun(Drop(slice, r))

(* family_particles_re = ^\S+(?:\-|\u{02bb}|\u{2019}|\s|')\s* : the length  *)
(* of the match at the start of slice, 0 when there is none.  \S+ takes    *)
(* the whole run of non-whitespace; when whitespace follows, that is the   *)
(* separator; when the run ends the string, \S+ gives characters back      *)
(* until the one after it is a hyphen or an apostrophe.                    *)
family_particles_re(slice) ==
    LET r == NonWsRun(slice)
        Seps == {k \in 1..(r - 1) : slice[k + 1] \in {"-", "U02BB", "U2019", "'"}}
    IN  IF r = 0 THEN 0
        ELSE IF r < Len(slice) THEN r + WsRun(Drop(slice, r))
        ELSE IF Seps = {} THEN 0
        ELSE (CHOOSE k \in Seps : \A j \in Seps : j <= k) + 1

(* givenn_particles_re = ^(?:\u{02bb}\s|\u{2019}\s|\s|'\s)?\S+\s* , applied *)
(* to the reversed given name.  The optional group is tried first and is   *)
(* given up when no non-whitespace follows it.                             *)
givenn_particles_re(slice) ==
    LET g == IF Len(slice) >= 2 /\ slice[1] \in {"U02BB", "U2019", "'"}
                /\ is_whitespace(slice[2]) THEN 2
             ELSE IF Len(slice) >= 1 /\ is_whitespace(slice[1]) THEN 1
             ELSE 0
        rg == NonWsRun(Drop(slice, g))
        r0 == NonWsRun(slice)
    IN  IF g > 0 /\ rg > 0 THEN g + rg + WsRun(Drop(slice, g + rg))
        ELSE IF r0 > 0 THEN r0 + WsRun(Drop(slice, r0))
        ELSE 0

(* has_particle: the first character of the particle that is neither       *)
(* whitespace nor one of - ' U+02BB U+2019 is lowercase.                   *)
RECURSIVE has_particle(_)
has_particle(particle) ==
    IF particle = <<>> THEN FALSE
    ELSE IF is_whitespace(particle[1]) \/ particle[1] \in {"-", "'", "U02BB", "U2019"}
         THEN has_particle(Tail(particle))
    ELSE is_lowercase(particle[1])

\* The while-let loop of split_particles: the particles found, in match order.
RECURSIVE SplitLoop(_, _, _)
SplitLoop(slice, is_given, particles) ==
    LET n == IF is_given THEN givenn_particles_re(slice) ELSE family_particles_re(slice)
        matched_particle == Take(slice, n)
        particle == IF is_given THEN rev(matched_particle) ELSE matched_particle
    IN  IF n = 0 \/ ~has_particle(particle) THEN particles
        ELSE SplitLoop(Drop(slice, n), is_given, Append(particles, particle))

RECURSIVE Join(_)
Join(ps) == IF ps = <<>> THEN <<>> ELSE Head(ps) \o Join(Tail(ps))

(* The particles of a given name put back in reading order: a leading      *)
(* space of a particle moves to the end of the particle before it and is   *)
(* dropped from the first.                                                 *)
GivenParticles(found) ==
    LET ps == rev(found)
        pushed1 == [i \in 1..Len(ps) |->
                      IF i < Len(ps) /\ ps[i + 1][1] = " " THEN Append(ps[i], " ")
                      ELSE ps[i]]
    IN  [i \in 1..Len(ps) |->
            IF pushed1[i][1] = " " THEN Tail(pushed1[i]) ELSE pushed1[i]]

NoSplit == [some |-> FALSE]

split_particles(orig_name_str, is_given) ==
    LET name_str == IF is_given THEN rev(orig_name_str) ELSE orig_name_str
        found == SplitLoop(name_str, is_given, <<>>)
        eaten == Len(Join(found))
        particles == IF is_given THEN GivenParticles(found) ELSE found
        remain == IF is_given THEN Take(orig_name_str, Len(orig_name_str) - eaten)
                  ELSE Drop(orig_name_str, eaten)
    IN  IF particles = <<>> THEN NoSplit
        ELSE [some |-> TRUE, particles |-> Join(particles),
              remain |-> replace_apostrophes(remain)]

(* parse_suffix: the first match of \s*,!?\s* in given.  It starts at the   *)
(* whitespace run before the first comma and ends after the whitespace     *)
(* that follows the comma and an optional "!".                             *)
EtAl == <<"e", "t", " ", "a", "l">>
EtAlDot == EtAl \o <<".">>

parse_suffix(given, has_dropping_particle) ==
    LET Commas == {i \in 1..Len(given) : given[i] = ","}
        c == CHOOSE i \in Commas : \A j \in Commas : i <= j
        start == c - WsRun(rev(Take(given, c - 1)))    \* mat.start(), 1-based
        bang == IF c < Len(given) /\ given[c + 1] = "!" THEN 1 ELSE 0
        end == c + bang + WsRun(Drop(given, c + bang))  \* mat.end()
        possible_suffix == Drop(given, end)
        force_comma == bang = 1                         \* possible_comma.len() == 2
    IN  IF Commas = {} THEN [some |-> FALSE, given |-> given]
        ELSE IF possible_suffix \in {EtAl, EtAlDot} /\ ~has_dropping_particle
             THEN [some |-> FALSE, given |-> given]
        ELSE [some |-> TRUE, suffix |-> possible_suffix, force_comma |-> force_comma,
              given |-> Take(given, start - 1)]

trim_last(string) ==
    LET trimmed == trim(string)
    IN  IF trimmed = <<>> THEN trimmed
        ELSE IF string[Len(string)] = " " /\ trimmed[Len(trimmed)] \in {"'", "U2019"}
             THEN Append(trimmed, " ")
        ELSE trimmed

\* Option::map(replace_apostrophes)
MapApostrophes(o) == IF o = NoneOpt THEN NoneOpt ELSE Some(replace_apostrophes(o.v))

\* A plausible slip: only static-particles stops the parsing.
Supplied_staticOnly(p) == p.static_particles

Supplied(p) ==
    \/ p.static_particles
    \/ p.non_dropping_particle # NoneOpt
    \/ p.dropping_particle # NoneOpt
    \/ p.suffix # NoneOpt

\* The family half of parse_particles (lines 185-193).
ParseFamily(p) ==
    IF p.family = NoneOpt THEN p
    ELSE LET sp == split_particles(p.family.v, FALSE)
         IN  IF sp.some
             THEN [p EXCEPT !.non_dropping_particle =
                                Some(replace_apostrophes(trim_last(sp.particles))),
                            !.family = Some(sp.remain)]
             ELSE [p EXCEPT !.family = Some(replace_apostrophes(p.family.v))]

\* The given half of parse_particles (lines 194-205).
ParseGiven(p) ==
    IF p.given = NoneOpt THEN p
    ELSE LET sf == parse_suffix(p.given.v, p.dropping_particle # NoneOpt)
             q == IF sf.some
                  THEN [p EXCEPT !.suffix = Some(sf.suffix),
                                 !.comma_suffix = sf.force_comma]
                  ELSE p
             sp == split_particles(sf.given, TRUE)
         IN  IF sp.some
             THEN [q EXCEPT !.dropping_particle =
                                Some(replace_apostrophes(trim(sp.particles))),
                            !.given = Some(sp.remain)]
             ELSE [q EXCEPT !.given = Some(replace_apostrophes(sf.given))]

\* parse_particles with the early return for supplied particles left out
parse_particles_alwaysParses(p) == ParseGiven(ParseFamily(p))

parse_particles(p) ==
    IF Supplied(p)
    THEN [p EXCEPT !.family = MapApostrophes(p.family),
                   !.given = MapApostrophes(p.given),
                   !.non_dropping_particle = MapApostrophes(p.non_dropping_particle),
                   !.dropping_particle = MapApostrophes(p.dropping_particle)]
    ELSE ParseGiven(ParseFamily(p))

(* ---- the names parse_particles is applied to ---- *)
PersonName(family, given, ndp, dp, suffix, static, comma) ==
    [family |-> family, given |-> given, non_dropping_particle |-> ndp,
     dropping_particle |-> dp, suffix |-> suffix, static_particles |-> static,
     comma_suffix |-> comma]

MaxNameLen == 5
MaxParses == 2

FamilyChars == {"a", "B", " ", "'", "-", "U2019"}
GivenChars == {"a", "B", " ", "'", ",", "!"}

\* The names of the test parse_particles (lines 209-312) and a few more.
VonCrumb == <<"v", "o", "n", " ", "C", "r", "u", "m", "b">>
VanDerVlist == <<"v", "a", "n", " ", "d", "e", "r", " ", "V", "l", "i", "s", "t">>
DelFamilyname == <<"d", "e", "l", " ", "F", "a", "m", "i", "l", "y", "n", "a", "m", "e">>
Familyname == <<"F", "a", "m", "i", "l", "y", "n", "a", "m", "e">>
DAubignac == <<"d", "U2019", "A", "u", "b", "i", "g", "n", "a", "c">>
TurnedComma == <<"a", "l", "U02BB", "A", "b">>
Eric == <<"E", "r", "i", "c">>
GivennameD == <<"G", "i", "v", "e", "n", "n", "a", "m", "e", " ", "d", "'">>
HedelinD == <<"H", "e", "d", "e", "l", "i", "n", " ", "d", "U2019">>
JohnJr == <<"J", "o", "h", "n", ",", " ", "J", "r">>
JohnEtAl == <<"J", "o", "h", "n", ",", " ">> \o EtAl
JanVanDe == <<"J", "a", "n", " ", "v", "a", "n", " ", "d", "e">>

TestFamilies == {VonCrumb, VanDerVlist, DelFamilyname, Familyname, DAubignac, TurnedComma}
TestGivens == {Eric, GivennameD, HedelinD, JohnJr, JohnEtAl, JanVanDe}


Opt(S) == {NoneOpt} \cup {Some(s) : s \in S}

\* Names with no particle or suffix supplied: every family with a few
\* givens, and every given with a few families.
FewGivens == Opt({Eric, GivennameD})
FewFamilies == Opt({VanDerVlist, <<"O", "'", "B">>})

SuppliedParticles == {<<"d", "'">>, <<"v", "a", "n">>}
SuppliedSuffixes == {<<"J", "r">>, <<"O", "'", "B">>}

\* Names that come with a particle, a suffix or static-particles.
SuppliedInputs ==
    {p \in {PersonName(f, g, n, d, s, st, c) :
                f \in Opt({VanDerVlist, <<"O", "'", "B">>, <<"d", "'", " ", "A">>}),
                g \in Opt({GivennameD, JohnJr, <<"a", "'", ",", "B">>}),
                n \in Opt(SuppliedParticles), d \in Opt(SuppliedParticles),
                s \in Opt(SuppliedSuffixes), st \in BOOLEAN, c \in BOOLEAN} :
        Supplied(p)}

NameInit ==
    /\ \/ \E f \in TestFamilies, g \in FewGivens :
             person = PersonName(Some(f), g, NoneOpt, NoneOpt, NoneOpt, FALSE, FALSE)
       \/ \E k \in 0..MaxNameLen : \E f \in [1..k -> FamilyChars], g \in FewGivens :
             person = PersonName(Some(f), g, NoneOpt, NoneOpt, NoneOpt, FALSE, FALSE)
       \/ \E f \in FewFamilies, g \in TestGivens, c \in BOOLEAN :
             person = PersonName(f, Some(g), NoneOpt, NoneOpt, NoneOpt, FALSE, c)
       \/ \E k \in 0..MaxNameLen :
             \E f \in FewFamilies, g \in [1..k -> GivenChars], c \in BOOLEAN :
                person = PersonName(f, Some(g), NoneOpt, NoneOpt, NoneOpt, FALSE, c)
       \/ person \in SuppliedInputs
    /\ before = person
    /\ parses = 0

\* name.parse_particles()
ParseParticles ==
    /\ parses < MaxParses
    /\ before' = person
    /\ person' = parse_particles(person)
    /\ parses' = parses + 1
    /\ UNCHANGED <<coreVars, notNames>>

NameNext == ParseParticles

(***************************************************************************)
(*     RefContext  (crates/citeproc-proc/src/disamb/ref_context.rs)        *)
(***************************************************************************)
\* The bits of a FreeCond that RefContext reads.
FreeCondBits ==
    {"IBID_WITH_LOCATOR", "IBID", "NEAR_NOTE", "FAR_NOTE", "SUBSEQUENT", "LOCATOR",
     "YEAR_SUFFIX"}

Positions == {"First", "Ibid", "IbidWithLocator", "Subsequent", "NearNote", "FarNote"}

\* impl From<FreeCond> for Position
PositionFrom(pos) ==
    IF "IBID_WITH_LOCATOR" \in pos THEN "IbidWithLocator"
    ELSE IF "IBID" \in pos THEN "Ibid"
    ELSE IF "NEAR_NOTE" \in pos THEN "NearNote"
    ELSE IF "FAR_NOTE" \in pos THEN "FarNote"
    ELSE IF "SUBSEQUENT" \in pos THEN "Subsequent"
    ELSE "First"

\* FreeCond::to_loc_type: a locator type when the cite has a locator.
to_loc_type(fc) == IF "LOCATOR" \in fc THEN Some("page") ELSE NoneOpt

(* Position::matches: a position matches itself; every position but First  *)
(* matches Subsequent, and IbidWithLocator matches Ibid.                   *)
matches(position, in_cond) ==
    \/ position = in_cond
    \/ in_cond = "Subsequent" /\ position # "First"
    \/ in_cond = "Ibid" /\ position = "IbidWithLocator"

\* RefContext::from_free_cond; of the style only its bibliography is read.
from_free_cond(fc, bibliography, ref) ==
    [style        |-> [bibliography |-> bibliography],
     reference    |-> ref,
     locator_type |-> to_loc_type(fc),
     position     |-> PositionFrom(fc),
     year_suffix  |-> "YEAR_SUFFIX" \in fc]

OrdinaryVariables ==
    {"Title", "TitleShort", "ContainerTitle", "ContainerTitleShort",
     "Hereinafter", "YearSuffix"}
NumberVariables == {"Locator", "FirstReferenceNoteNumber", "CitationNumber", "Page"}
DateVariables == {"Issued"}
NameVariables == {"Author"}
VariableForms == {"Long", "Short"}

Ordinary(v) == <<"Ordinary", v>>
Number(v) == <<"Number", v>>
Date(v) == <<"Date", v>>
Name(v) == <<"Name", v>>
AnyVariables ==
    {Ordinary(v) : v \in OrdinaryVariables} \cup {Number(v) : v \in NumberVariables}
    \cup {Date(v) : v \in DateVariables} \cup {Name(v) : v \in NameVariables}

\* HashMap::get
Get(map, key) == IF key \in DOMAIN map THEN Some(map[key]) ELSE NoneOpt

\* RefContext::get_ordinary
get_ordinary(self, var, form) ==
    CASE var = "Title" /\ form = "Short" -> Get(self.reference.ordinary, "TitleShort")
      [] OTHER -> Get(self.reference.ordinary, var)

\* RefContext::get_number
get_number(self, var) == Get(self.reference.number, var)

\* A plausible slip: every number variable is looked up in the reference.
has_variable_fromReference(self, var) ==
    CASE var[1] = "Number" -> get_number(self, var[2]) # NoneOpt
      [] var[1] = "Ordinary" /\ var[2] \in {"Hereinafter", "YearSuffix"} ->
            "unimplemented"
      [] var[1] = "Ordinary" -> var[2] \in DOMAIN self.reference.ordinary
      [] var[1] = "Date" -> var[2] \in DOMAIN self.reference.date
      [] var[1] = "Name" -> var[2] \in DOMAIN self.reference.name

\* RefContext::has_variable; "unimplemented": the call panics
has_variable(self, var) ==
    CASE var = Number("Locator") -> self.locator_type # NoneOpt
      [] var = Number("FirstReferenceNoteNumber") ->
            matches(self.position, "Subsequent")
      [] var = Number("CitationNumber") -> self.style.bibliography
      [] var[1] = "Number" -> get_number(self, var[2]) # NoneOpt
      [] var[1] = "Ordinary" /\ var[2] \in {"Hereinafter", "YearSuffix"} ->
            "unimplemented"
      [] var[1] = "Ordinary" -> var[2] \in DOMAIN self.reference.ordinary
      [] var[1] = "Date" -> var[2] \in DOMAIN self.reference.date
      [] var[1] = "Name" -> var[2] \in DOMAIN self.reference.name

(* ---- the contexts queried ---- *)
\* The value a reference stores under a variable.
StoredValue(v) == <<"value of", v>>

StoredMaps(V) == {[v \in S |-> StoredValue(v)] : S \in SUBSET V}

EmptyReference == [ordinary |-> <<>>, number |-> <<>>, date |-> <<>>, name |-> <<>>]

\* References that store ordinary variables, or number, date or name ones.
References ==
    {[EmptyReference EXCEPT !.ordinary = o] :
        o \in StoredMaps(OrdinaryVariables \ {"Hereinafter", "YearSuffix"})}
    \cup {[EmptyReference EXCEPT !.number = n] : n \in StoredMaps(NumberVariables)}
    \cup {[EmptyReference EXCEPT !.date = d, !.name = n] :
            d \in StoredMaps(DateVariables), n \in StoredMaps(NameVariables)}

MaxFreeCondBits == 2
FreeConds == {fc \in SUBSET FreeCondBits : Cardinality(fc) <= MaxFreeCondBits}

NotAsked == [fn |-> "none"]

RefInit ==
    /\ ctx \in {from_free_cond(fc, b, r) :
                    fc \in FreeConds, b \in BOOLEAN, r \in References}
    /\ asked = NotAsked

\* ctx.get_ordinary(var, form)
GetOrdinary(var, form) ==
    /\ asked' = [fn |-> "get_ordinary", var |-> var, form |-> form,
                 out |-> get_ordinary(ctx, var, form)]
    /\ UNCHANGED ctx
    /\ UNCHANGED <<coreVars, notRef>>

\* ctx.has_variable(var)
HasVariable(var) ==
    /\ asked' = [fn |-> "has_variable", var |-> var, out |-> has_variable(ctx, var)]
    /\ UNCHANGED ctx
    /\ UNCHANGED <<coreVars, notRef>>

RefNext ==
    \/ \E var \in OrdinaryVariables, form \in VariableForms : GetOrdinary(var, form)
    \/ \E var \in AnyVariables : HasVariable(var)

(***************************************************************************)
(*         Nested groups  (citeproc/src/proc/group.rs, spec 4.3)           *)
(***************************************************************************)
MaxDepth == 3

NoCombination == [fn |-> "none"]

\* One summary per open <group> subtree, the outermost first.
TreeInit ==
    /\ stack = <<GroupVarsNew>>
    /\ gvOp = NoCombination

\* A leaf of the innermost open group is evaluated.
TreeLeaf(leaf) ==
    LET self == stack[Len(stack)]
        out == neighbour(self, LeafVars(leaf))
    IN  /\ stack' = [stack EXCEPT ![Len(stack)] = out]
        /\ gvOp' = [fn |-> "neighbour", self |-> self, other |-> LeafVars(leaf),
                    out |-> out]
        /\ UNCHANGED <<coreVars, notTree>>

\* A nested <group> is entered: "make a new one of these per subtree".
OpenSubtree ==
    /\ Len(stack) < MaxDepth
    /\ stack' = Append(stack, GroupVarsNew)
    /\ gvOp' = NoCombination
    /\ UNCHANGED <<coreVars, notTree>>

\* The innermost group is finished and its summary goes to its parent.
CloseSubtree ==
    /\ Len(stack) > 1
    /\ LET parent == stack[Len(stack) - 1]
           subtree == stack[Len(stack)]
           out == with_subtree(parent, subtree)
       IN  /\ stack' = [SubSeq(stack, 1, Len(stack) - 1) EXCEPT ![Len(stack) - 1] = out]
           /\ gvOp' = [fn |-> "with_subtree", self |-> parent, other |-> subtree,
                       out |-> out]
    /\ UNCHANGED <<coreVars, notTree>>

TreeNext ==
    \/ \E leaf \in LeafKinds : TreeLeaf(leaf)
    \/ OpenSubtree
    \/ CloseSubtree

(***************************************************************************)
(*     Flip-flop formatting  (crates/io/src/output/markup/flip_flop.rs)    *)
(***************************************************************************)
\* csl::Formatting; "none" is Option::None.
Formatting(fs, fw, fv) ==
    [font_style |-> fs, font_weight |-> fw, font_variant |-> fv]

NoFormatting == Formatting("none", "none", "none")

\* FlipFlopState::from_formatting
from_formatting(f) ==
    [emph            |-> IF f.font_style = "none" THEN "Normal" ELSE f.font_style,
     in_emph         |-> f.font_style \in {"Italic", "Oblique"},
     in_strong       |-> f.font_weight = "Bold",
     in_small_caps   |-> f.font_variant = "SmallCaps",
     in_outer_quotes |-> FALSE]

(* ---- the elements ---- *)
\* InlineElement: Text, Micro(nodes), Formatted(subs, f), Quoted(q, subs),
\* Anchor { content: subs }.
Inline(kind, f, q, subs, nodes) ==
    [kind |-> kind, f |-> f, q |-> q, subs |-> subs, nodes |-> nodes]

InlineText == Inline("Text", NoFormatting, "none", <<>>, <<>>)
Micro(nodes) == Inline("Micro", NoFormatting, "none", <<>>, nodes)
Formatted(subs, f) == Inline("Formatted", f, "none", subs, <<>>)
Quoted(q, subs) == Inline("Quoted", NoFormatting, q, subs, <<>>)
Anchor(subs) == Inline("Anchor", NoFormatting, "none", subs, <<>>)

\* MicroNode: Text, Formatted(nodes, cmd), NoCase(nodes).
MicroNode(kind, cmd, subs) == [kind |-> kind, cmd |-> cmd, subs |-> subs]

NodeText == MicroNode("Text", "none", <<>>)
NodeFormatted(subs, cmd) == MicroNode("Formatted", cmd, subs)
NoCase(subs) == MicroNode("NoCase", "none", subs)

(* ---- flip_flop_node, lines 117-162 ---- *)
\* A plausible slip: the children are processed with the incoming state.
NodeFlop_keepsState(state, cmd) == state

\* The state the children of a formatted node are processed with.
NodeFlop(state, cmd) ==
    CASE cmd = "FontStyleItalic"      -> [state EXCEPT !.in_emph = ~state.in_emph]
      [] cmd = "FontWeightBold"       -> [state EXCEPT !.in_strong = ~state.in_strong]
      [] cmd = "FontVariantSmallCaps" ->
            [state EXCEPT !.in_small_caps = ~state.in_small_caps]
      [] OTHER -> state

\* The command a formatted node is emitted with.
NodeCmd(state, cmd) ==
    CASE cmd = "FontStyleItalic" ->
            IF state.in_emph THEN "FontStyleNormal" ELSE cmd
      [] cmd = "FontWeightBold" ->
            IF state.in_strong THEN "FontWeightNormal" ELSE cmd
      [] cmd = "FontVariantSmallCaps" ->
            IF state.in_small_caps THEN "FontVariantNormal" ELSE cmd
      [] OTHER -> cmd

RECURSIVE flip_flop_nodes(_, _)
RECURSIVE flip_flop_node(_, _)

flip_flop_node(node, state) ==
    CASE node.kind = "Formatted" ->
            Some(NodeFormatted(flip_flop_nodes(node.subs, NodeFlop(state, node.cmd)),
                               NodeCmd(state, node.cmd)))
      [] node.kind = "Text" -> NoneOpt
      [] node.kind = "NoCase" -> Some(NoCase(flip_flop_nodes(node.subs, state)))

\* nodes.iter().map(|nod| flip_flop_node(nod, state).unwrap_or_else(|| nod.clone()))
flip_flop_nodes(nodes, state) ==
    [i \in 1..Len(nodes) |->
        LET r == flip_flop_node(nodes[i], state)
        IN  IF r = NoneOpt THEN nodes[i] ELSE r.v]

(* ---- flip_flop, lines 42-109 ---- *)
\* The state the children of Formatted(ils, f) are processed with.
FormattedFlop(state, f) ==
    [state EXCEPT
        !.in_emph = IF f.font_style = "none" THEN @
                    ELSE f.font_style \in {"Italic", "Oblique"},
        !.emph = IF f.font_style = "none" THEN @ ELSE f.font_style,
        !.in_strong = IF f.font_weight = "none" THEN @ ELSE f.font_weight = "Bold",
        !.in_small_caps = IF f.font_variant = "none" THEN @
                          ELSE f.font_variant = "SmallCaps"]

\* new_f: the formatting Formatted(ils, f) is emitted with.
FormattedNew(state, f) ==
    [font_style |->
        IF f.font_style # "none" /\ f.font_style = state.emph THEN "none"
        ELSE f.font_style,
     font_weight |->
        IF f.font_weight # "none" /\ state.in_strong = (f.font_weight = "Bold")
           /\ f.font_weight = "Bold" THEN "none"
        ELSE f.font_weight,
     font_variant |->
        IF f.font_variant # "none"
           /\ state.in_small_caps = (f.font_variant = "SmallCaps") THEN "none"
        ELSE f.font_variant]

\* A plausible slip: the children are processed with the incoming state.
QuotedFlop_noFlip(state) == state

\* flop.in_outer_quotes = !flop.in_outer_quotes
QuotedFlop(state) == [state EXCEPT !.in_outer_quotes = ~state.in_outer_quotes]

\* The quote type a Quoted element is emitted with.
QuotedType(state) == IF ~state.in_outer_quotes THEN "SingleQuote" ELSE "DoubleQuote"

RECURSIVE flip_flop_inlines(_, _)
RECURSIVE flip_flop(_, _)

flip_flop(inline, state) ==
    CASE inline.kind = "Micro" -> Some(Micro(flip_flop_nodes(inline.nodes, state)))
      [] inline.kind = "Formatted" ->
            Some(Formatted(flip_flop_inlines(FormattedFlop(state, inline.f), inline.subs),
                           FormattedNew(state, inline.f)))
      [] inline.kind = "Quoted" ->
            Some(Quoted(QuotedType(state),
                        flip_flop_inlines(QuotedFlop(state), inline.subs)))
      [] inline.kind = "Anchor" -> Some(Anchor(flip_flop_inlines(state, inline.subs)))
      [] OTHER -> NoneOpt

\* FlipFlopState::flip_flop_inlines
flip_flop_inlines(self, inlines) ==
    [i \in 1..Len(inlines) |->
        LET r == flip_flop(inlines[i], self)
        IN  IF r = NoneOpt THEN inlines[i] ELSE r.v]

(* ---- the trees rewritten ---- *)
MaxNodeDepth == 3
MaxInlineDepth == 2

FormatCmds ==
    {"FontStyleItalic", "FontWeightBold", "FontVariantSmallCaps",
     "VerticalAlignmentSuperscript"}

\* Micro nodes nested up to d deep, one child each.
RECURSIVE NodeTrees(_)
NodeTrees(d) ==
    IF d = 0 THEN {NodeText}
    ELSE {NodeText}
         \cup {NodeFormatted(<<n>>, cmd) : n \in NodeTrees(d - 1), cmd \in FormatCmds}
         \cup {NoCase(<<n>>) : n \in NodeTrees(d - 1)}

\* One deep node, or two siblings one level less deep.
NodeLists ==
    {<<n>> : n \in NodeTrees(MaxNodeDepth)}
    \cup {<<n, m>> : n, m \in NodeTrees(MaxNodeDepth - 1)}

InlineFormattings ==
    {Formatting("Italic", "none", "none"), Formatting("Normal", "Bold", "SmallCaps")}

InlineLeaves ==
    {InlineText, Micro(<<NodeFormatted(<<NodeText>>, "FontStyleItalic")>>)}

QuoteTypes == {"SingleQuote", "DoubleQuote"}

\* Inline elements nested up to d deep, one child each.
RECURSIVE InlineTrees(_)
InlineTrees(d) ==
    IF d = 0 THEN InlineLeaves
    ELSE InlineLeaves
         \cup {Quoted(q, <<e>>) : q \in QuoteTypes, e \in InlineTrees(d - 1)}
         \cup {Formatted(<<e>>, f) : e \in InlineTrees(d - 1), f \in InlineFormattings}
         \cup {Anchor(<<e>>) : e \in InlineTrees(d - 1)}

\* The formattings a FlipFlopState is made from.
StateFormattings ==
    {Formatting(s, w, v) : s \in {"none", "Italic"}, w \in {"none", "Bold"},
                           v \in {"none", "SmallCaps"}}

NotRewritten == [st |-> "none"]

(* Either one Micro element with deep nodes, or one deep inline element,   *)
(* or two sibling elements; the state comes from from_formatting.          *)
FlipInit ==
    /\ \E f \in StateFormattings : ffState = from_formatting(f)
    /\ \/ \E nodes \in NodeLists : ffIn = <<Micro(nodes)>>
       \/ \E e \in InlineTrees(MaxInlineDepth + 1) : ffIn = <<e>>
       \/ \E e, g \in InlineTrees(MaxInlineDepth) : ffIn = <<e, g>>
    /\ ffOut = NotRewritten

\* state.flip_flop_inlines(inlines)
FlipFlopInlines ==
    /\ ffOut.st = "none"
    /\ ffOut' = Some(flip_flop_inlines(ffState, ffIn))
    /\ UNCHANGED <<ffState, ffIn>>
    /\ UNCHANGED <<coreVars, notFlip>>

FlipNext == FlipFlopInlines

(***************************************************************************)
(*                             Specifications                              *)
(***************************************************************************)
GroupIdle == /\ leaves = <<>> /\ summary = GroupVarsNew /\ rendered = TRUE

SortIdle ==
    /\ sortA = <<>> /\ sortB = <<>> /\ sortC = <<>>
    /\ cmpAB = Unused /\ cmpBA = Unused /\ cmpBC = Unused /\ cmpAC = Unused
    /\ exIn = <<>> /\ exOut = ExUnused

ProcIdle ==
    /\ style = "s1"
    /\ save_updates = FALSE
    /\ reference_input = [r \in RefIds |-> NoRef]
    /\ all_keys = {}
    /\ cluster_ids = <<>>
    /\ cluster_cites = [c \in ClusterIds |-> Unset]
    /\ cluster_note_number = [c \in ClusterIds |-> NoNumber]
    /\ built = [c \in ClusterIds |-> [st |-> "none", val |-> NoOutput]]
    /\ queue = <<>>
    /\ library = [r \in RefIds |-> NoRef]
    /\ executed = <<>>
    /\ delivered = [c \in ClusterIds |-> NoOutput]
    /\ history = NoHistory
    /\ calls = 0
    /\ lastOp = [err |-> FALSE, op |-> "new", ids |-> {}, recorded |-> {}, missed |-> {},
                 computed |-> FALSE, before |-> NoHistory]

CallerIdle ==
    /\ library = [r \in RefIds |-> NoRef]
    /\ executed = <<>>
    /\ delivered = [c \in ClusterIds |-> NoOutput]
    /\ history = NoHistory
    /\ calls = 0
    /\ lastOp = [err |-> FALSE, op |-> "new", ids |-> {}, recorded |-> {}, missed |-> {},
                 computed |-> FALSE, before |-> NoHistory]

ParIdle ==
    /\ rayon = TRUE
    /\ pc = "idle"
    /\ lock = "free"
    /\ thr = [t \in Threads |-> Idle]
    /\ todo = {}
    /\ irMemo = [c \in ClusterIds |-> "none"]
    /\ ysMemo = "none"
    /\ seen = <<>>
    /\ started = Counters
    /\ pushed = Counters
    /\ consumed = Counters
    /\ lost = {}

NameIdle ==
    /\ person = PersonName(NoneOpt, NoneOpt, NoneOpt, NoneOpt, NoneOpt, FALSE, FALSE)
    /\ before = person
    /\ parses = 0

RefIdle ==
    /\ ctx = from_free_cond({}, FALSE, EmptyReference)
    /\ asked = NotAsked

TreeIdle == TreeInit

FlipIdle ==
    /\ ffState = from_formatting(NoFormatting)
    /\ ffIn = <<>>
    /\ ffOut = NotRewritten

ExtIdle == NameIdle /\ SuiteInit /\ RefIdle /\ TreeIdle /\ FlipIdle

\* Group suppression: the summary of a group as its leaves are evaluated.
InitGroup == GroupInit /\ SortIdle /\ ProcIdle /\ ParIdle /\ ExtIdle
SpecGroup == InitGroup /\ [][GroupNext]_vars

\* Natural comparison of sort keys.
InitSort == SortInit /\ GroupIdle /\ ProcIdle /\ ParIdle /\ ExtIdle
SpecSort == InitSort /\ [][SortNext]_vars

\* The processor under its callers' calls.
Init == ProcInit /\ GroupIdle /\ SortIdle /\ ParIdle /\ ExtIdle
Spec == Init /\ [][ProcNext]_vars

\* The processor under mutations and complete reads.
SpecMut == Init /\ [][MutNext]_vars

\* batched_updates() thread by thread, with a snapshot in another thread.
InitPar == ParInit /\ CallerIdle /\ GroupIdle /\ SortIdle /\ ExtIdle
SpecPar == InitPar /\ [][ParNext]_vars

CoreIdle == GroupIdle /\ SortIdle /\ ProcIdle /\ ParIdle

\* parse_particles() on a person's name.
InitNames == NameInit /\ CoreIdle /\ SuiteInit /\ RefIdle /\ TreeIdle /\ FlipIdle
SpecNames == InitNames /\ [][NameNext]_vars

\* A test case: its format, its processor and the executor's instructions.
InitSuite == SuiteInit /\ CoreIdle /\ NameIdle /\ RefIdle /\ TreeIdle /\ FlipIdle
SpecSuite == InitSuite /\ [][SuiteNext]_vars

\* A RefContext built from a FreeCond and the questions put to it.
InitRef == RefInit /\ CoreIdle /\ NameIdle /\ SuiteInit /\ TreeIdle /\ FlipIdle
SpecRef == InitRef /\ [][RefNext]_vars

\* Nested groups: leaves join their group, a finished group joins its parent.
InitTree == TreeInit /\ CoreIdle /\ NameIdle /\ SuiteInit /\ RefIdle /\ FlipIdle
SpecTree == InitTree /\ [][TreeNext]_vars

\* Flip-flop formatting: a list of inline elements is rewritten under a state.
InitFlip == FlipInit /\ CoreIdle /\ NameIdle /\ SuiteInit /\ RefIdle /\ TreeIdle
SpecFlip == InitFlip /\ [][FlipNext]_vars

(***************************************************************************)
(*                      Properties: group suppression                      *)
(***************************************************************************)
HasVarLeaf == \E i \in 1..Len(leaves) : leaves[i] # "value"
HasPresentVar == \E i \in 1..Len(leaves) : leaves[i] = "varPresent"

\* C6: a group subtree renders iff its group-vars summary is not OnlyEmpty:
\* it renders for NoneSeen and for DidRender and is suppressed for OnlyEmpty.
C6_RendersIffNotOnlyEmpty ==
    /\ summary \in GroupVars
    /\ summary \in {"NoneSeen", "DidRender"} => rendered
    /\ summary = "OnlyEmpty" => ~rendered

C6_Witness ==
    /\ Len(leaves) >= 2 /\ summary = "OnlyEmpty" /\ ~rendered

\* C7: folding the leaves with neighbour() from GroupVars::new(): a group of
\* only non-variable text renders; a group whose variable leaves are all
\* empty does not, even beside non-variable text; the group of a value and
\* a variable renders iff the variable is present.
C7_FoldOfLeaves ==
    /\ ~HasVarLeaf => rendered
    /\ (HasVarLeaf /\ ~HasPresentVar) => ~rendered
    /\ HasPresentVar => rendered
    /\ leaves = <<"value", "varPresent">> => rendered
    /\ leaves = <<"value", "varEmpty">> => ~rendered

C7_Witness ==
    /\ leaves = <<"value", "varEmpty">> /\ ~rendered

(***************************************************************************)
(*                    Properties: natural comparison                       *)
(***************************************************************************)
Compared == cmpAB \notin {Pending, Unused}
ComparedThree == Compared /\ cmpBC \notin {Pending, Unused}

Leq(o) == o \in {"Less", "Equal"}

\* C8: natural comparison is a total order on non-empty sort keys: total,
\* antisymmetric (Equal only for equal keys, and a < b iff b > a) and
\* transitive.
C8_TotalOrder ==
    /\ Compared =>
          /\ cmpAB \in {"Less", "Equal", "Greater"}
          /\ cmpAB = Reverse(cmpBA)
          /\ cmpAB = "Equal" => sortA = sortB
    /\ ComparedThree =>
          /\ (cmpAB = "Less" /\ cmpBC = "Less") => cmpAC = "Less"
          /\ (Leq(cmpAB) /\ Leq(cmpBC)) => Leq(cmpAC)

\* The dates of DateTexts in the order C9 gives them: by (year, month, day)
\* with signed years and missing parts as zero, a date before the ranges
\* that start on it, ranges by their end.
DateOrder ==
    << <<"-", "0", "1", "0", "0">>,
       <<"-", "0", "0", "4", "4">>,
       <<"0", "0", "5", "0">>,
       <<"0", "1", "0", "0">>,
       <<"2", "0", "0", "0">>,
       <<"2", "0", "0", "0", "-", "0", "4">>,
       <<"2", "0", "0", "0", "-", "0", "4", "-", "0", "1">>,
       <<"2", "0", "0", "9", "-", "0", "4", "-", "0", "7">>,
       <<"2", "0", "0", "9", "-", "0", "4", "-", "0", "7", "/", "2", "0", "1", "0", "-", "0", "5", "-", "0", "9">>,
       <<"2", "0", "0", "9", "-", "0", "4", "-", "0", "7", "/", "2", "0", "1", "1", "-", "0", "1", "-", "0", "1">> >>

DatePos(t) == CHOOSE i \in 1..Len(DateOrder) : DateOrder[i] = t

\* C9: two keys with an equal plain prefix and one date segment each
\* compare as their dates do: 2000 < 2000-04 < 2000-04-01,
\* -0100 < -0044 < 0050 < 0100, 2009-04-07 < 2009-04-07/2010-05-09, and
\* ranges by start then end.
C9_DateOrder ==
    Compared =>
        \A pre \in {<<>>, <<"a">>} : \A t, u \in DateTexts :
            (sortA = pre \o DateSeg(t) /\ sortB = pre \o DateSeg(u))
                => cmpAB = CmpInt(DatePos(t), DatePos(u))

C9_Witness ==
    /\ sortA = <<"a">> \o DateSeg(<<"2", "0", "0", "9", "-", "0", "4", "-", "0", "7">>)
    /\ sortB = <<"a">> \o DateSeg(<<"2", "0", "0", "9", "-", "0", "4", "-", "0", "7", "/",
                                     "2", "0", "1", "0", "-", "0", "5", "-", "0", "9">>)
    /\ cmpAB = "Less" /\ cmpBA = "Greater"

\* The number of digits k (1 to 8) such that s is U+E004, k digits, U+E005
\* and a rest; 0 when s has no such beginning.
CnumDigits(s) ==
    LET ks == {k \in 1..8 :
                /\ Len(s) >= k + 2
                /\ s[1] = CITATION_NUM_START
                /\ \A i \in 2..(k + 1) : is_ascii_digit(s[i])
                /\ s[k + 2] = CITATION_NUM_END}
    IN  IF ks = {} THEN 0 ELSE CHOOSE k \in ks : TRUE

RECURSIVE Decimal(_, _)
Decimal(s, acc) ==
    IF s = <<>> THEN acc ELSE Decimal(Tail(s), 10 * acc + DigitVal(s[1]))

\* C10: extract_citation_number(s) is Some(n) exactly when s begins with
\* U+E004, 1 to 8 digits of decimal value n, U+E005; it is None otherwise.
C10_ExtractCitationNumber ==
    exOut.st \in {"some", "none"} =>
        LET k == CnumDigits(exIn) IN
        exOut = IF k = 0 THEN NoneOpt ELSE Some(Decimal(SubSeq(exIn, 2, k + 1), 0))

C10_Witness ==
    /\ exIn = <<CITATION_NUM_START, "0", "0", "0", "0", "0", "0", "0", "8",
                CITATION_NUM_END>>
    /\ exOut = Some(8)


(***************************************************************************)
(*                     Properties: the update queue                        *)
(***************************************************************************)
\* A fresh processor seeded with the final inputs: the references handed
\* over so far, the current style and the clusters of the document.
FreshRender(c) ==
    Render(style, LibraryKeys, library, cluster_ids, cluster_cites,
           cluster_note_number, c)

\* C1: after any sequence of mutations, the outputs a caller has after
\* batched_updates() and get_cluster of every other cluster are those of a
\* fresh processor seeded with the final inputs, and every cluster whose
\* output differs from the one delivered before is in the summary.
C1_IncrementalIsFresh ==
    lastOp.op = "get_results" =>
        /\ \A c \in Range(cluster_ids) : delivered[c] = FreshRender(c)
        /\ save_updates => lastOp.missed = {}

QueueOf(ex) == [i \in 1..Len(ex) |-> DocUpdateCluster(ex[i])]

Batched == lastOp.op \in {"batched_updates", "get_results"}

QueueRecordsExecutions ==
    /\ save_updates => queue = QueueOf(executed)
    /\ ~save_updates => queue = <<>>

BatchReturnsRecorded ==
    (Batched /\ save_updates) => (lastOp.ids = lastOp.recorded /\ queue = <<>>)

BatchOffIsEmpty ==
    (lastOp.op = "batched_updates" /\ ~save_updates) =>
        (lastOp.ids = {} /\ ~lastOp.computed)

\* C2, as stated: a second batched_updates() with no mutation in between
\* reports no cluster.
C2_QueueAsStated ==
    /\ QueueRecordsExecutions
    /\ BatchReturnsRecorded
    /\ BatchOffIsEmpty
    /\ (Batched /\ lastOp.before.cleared = "batched_updates"
          /\ ~lastOp.before.mutated) => lastOp.ids = {}

\* C2: the queue holds exactly the built_cluster executions since it was
\* emptied when save_updates is on and nothing when it is off;
\* batched_updates() returns the recorded ids and leaves the queue empty; a
\* second batched_updates() reports no cluster when there was no mutation
\* and no get_cluster of a cluster outside cluster_ids in between; with
\* save_updates off it returns the empty summary without computing.
C2_Queue ==
    /\ QueueRecordsExecutions
    /\ BatchReturnsRecorded
    /\ BatchOffIsEmpty
    /\ (Batched /\ lastOp.before.cleared = "batched_updates"
          /\ ~lastOp.before.mutated /\ ~lastOp.before.strayRead)
         => lastOp.ids = {}

\* A second batched_updates() right after one that reported a cluster.
C2_Witness ==
    /\ save_updates
    /\ lastOp.op = "batched_updates"
    /\ lastOp.before.cleared = "batched_updates"
    /\ ~lastOp.before.mutated /\ ~lastOp.before.strayRead
    /\ cluster_ids # <<>>
    /\ \A c \in Range(cluster_ids) : delivered[c] = BuiltNow(c)

UpToDate ==
    \A c \in Range(cluster_ids) :
        built[c].st = "fresh" /\ built[c].val = BuiltNow(c)

DrainEmpties == lastOp.op = "drain" => (queue = <<>> /\ UpToDate)

ReportedWereExecuted == (Batched /\ save_updates) => lastOp.ids \subseteq lastOp.recorded

\* C3, as stated: after drain(), a batched_updates() with no intervening
\* mutation reports no cluster.
C3_DrainAsStated ==
    /\ DrainEmpties
    /\ ReportedWereExecuted
    /\ (Batched /\ lastOp.before.cleared = "drain" /\ ~lastOp.before.mutated)
         => lastOp.ids = {}

\* C3: right after drain() every cluster of cluster_ids is up to date and
\* the queue is empty; a batched_updates() after it reports no cluster
\* when there was no mutation and no get_cluster of a cluster outside
\* cluster_ids in between; what is reported later was executed after the
\* drain().
C3_Drain ==
    /\ DrainEmpties
    /\ ReportedWereExecuted
    /\ (Batched /\ lastOp.before.cleared = "drain"
          /\ ~lastOp.before.mutated /\ ~lastOp.before.strayRead)
         => lastOp.ids = {}

\* A batched_updates() right after a drain() that discarded an update.
C3_Witness ==
    /\ save_updates
    /\ lastOp.op = "batched_updates"
    /\ lastOp.before.cleared = "drain"
    /\ ~lastOp.before.mutated /\ ~lastOp.before.strayRead
    /\ lastOp.ids = {}
    /\ \E c \in Range(cluster_ids) : delivered[c] # BuiltNow(c)

(***************************************************************************)
(*                 Properties: threads and the queue's mutex               *)
(***************************************************************************)
InCriticalSection ==
    {t \in Threads : thr[t].st \in {"locked", "pushed"}}
    \cup (IF pc \in {"summarize", "clear", "unlock"} THEN {Owner} ELSE {})

BeingRecorded(c) ==
    Cardinality({t \in Threads : thr[t].st \in {"event", "locked"} /\ thr[t].key = c})

\* C4: at most one thread is inside the queue's mutex; every execution of
\* built_cluster on any thread appends exactly one entry (none with
\* save_updates off); the queue that clear() empties is the queue that
\* summarize read, and every entry appended is in the queue or was taken
\* out by a clear() whose summary held its id.
C4_QueueSerialized ==
    /\ Cardinality(InCriticalSection) <= 1
    /\ pc = "clear" => queue = seen
    /\ lost = {}
    /\ \A c \in ClusterIds :
          /\ pushed[c] = Count(queue, c) + consumed[c]
          /\ save_updates => started[c] = pushed[c] + BeingRecorded(c)
          /\ ~save_updates => pushed[c] = 0

\* The owner is between summarize and clear() while another thread, which
\* has begun to execute built_cluster, waits for the mutex.
C4_Witness ==
    /\ pc = "clear"
    /\ seen # <<>>
    /\ \E t \in Threads \ {Owner} : thr[t].st = "event"

ComputeThreads == Workers \cup {Owner}

AllIrDone == \A cite \in all_cite_ids : irMemo[cite] = "done"

InCompute == pc \in {"ir", "ys", "build", "seq"}

IrBeforeYearSuffixes == (pc = "ys" /\ ysMemo = "running") => AllIrDone

YearSuffixesBeforeBuild ==
    \A t \in ComputeThreads :
        (InCompute /\ thr[t].st \in {"event", "locked", "pushed", "exec"})
            => (ysMemo = "done" /\ AllIrDone)

\* C5, as stated: in every compute().
C5_OrderAsStated == IrBeforeYearSuffixes /\ YearSuffixesBeforeBuild

\* C5: in a build with the rayon feature, within one compute() the IR of
\* every cite is generated before year_suffixes starts, and year_suffixes
\* is done before a thread of compute() starts to build a cluster.
C5_Order == rayon => (IrBeforeYearSuffixes /\ YearSuffixesBeforeBuild)

\* A pool thread builds a cluster in the third step of compute(), after the
\* year suffixes were computed in its second step.
C5_Witness ==
    /\ rayon
    /\ pc = "build"
    /\ ysMemo = "done"
    /\ \E w \in Workers : thr[w].st = "exec"
    /\ \A c \in ClusterIds : started[c] <= 1

(***************************************************************************)
(*                       Properties: name particles                        *)
(***************************************************************************)
Separators == {"-", "'", "U2019", "U02BB"}

\* The first character of p that is neither a separator nor a space is a
\* lowercase letter.
LowercaseInitial(p) ==
    \E i \in 1..Len(p) :
        /\ is_lowercase(p[i])
        /\ \A j \in 1..(i - 1) : p[j] \in Separators \cup {" "}

(* The first n characters of s are a particle: a lowercase-initial word    *)
(* with all the whitespace that follows it, or, when the word ends the     *)
(* string, the word up to its last hyphen or apostrophe.                   *)
ParticleAt(s, n) ==
    /\ n \in 1..Len(s)
    /\ LowercaseInitial(Take(s, n))
    /\ \E w \in 1..n :
          /\ \A i \in 1..w : s[i] # " "
          /\ \/ /\ w < n
                /\ \A i \in (w + 1)..n : s[i] = " "
                /\ n = Len(s) \/ s[n + 1] # " "
             \/ /\ w = n /\ n >= 2
                /\ s[n] \in Separators
                /\ \A i \in (n + 1)..Len(s) : s[i] \notin Separators \cup {" "}

\* The first e characters of s are a run of particles.
RECURSIVE IsParticleRun(_, _)
IsParticleRun(s, e) ==
    \/ e = 0
    \/ \E n \in 1..e : ParticleAt(s, n) /\ IsParticleRun(Drop(s, n), e - n)

StartsWithParticle(s) == \E n \in 1..Len(s) : ParticleAt(s, n)

\* p trimmed, but for one space kept after a final apostrophe.
TrimmedParticle(p) ==
    IF p # <<>> /\ p[Len(p)] = " " /\ trim(p) # <<>>
       /\ trim(p)[Len(trim(p))] \in {"'", "U2019"}
    THEN Append(trim(p), " ")
    ELSE trim(p)

Parsed == parses > 0 /\ ~Supplied(before)

\* The leading e characters of the family name went to the particle field,
\* handed over as Trimmed makes them, and the rest stayed.
FamilySplitAt(e, ndp) ==
    LET F == before.family.v
    IN  /\ IsParticleRun(F, e)
        /\ ~StartsWithParticle(Drop(F, e))
        /\ person.family = Some(replace_apostrophes(Drop(F, e)))
        /\ ~StartsWithParticle(person.family.v)
        /\ IF e = 0 THEN person.non_dropping_particle = NoneOpt
           ELSE person.non_dropping_particle = Some(replace_apostrophes(ndp))

VanDer == <<"v", "a", "n", " ", "d", "e", "r">>
Vlist == <<"V", "l", "i", "s", "t">>

VanDerVlistExample ==
    before = PersonName(Some(VanDerVlist), Some(Eric), NoneOpt, NoneOpt, NoneOpt,
                        FALSE, FALSE)
    => person = PersonName(Some(Vlist), Some(Eric), Some(VanDer), NoneOpt, NoneOpt,
                           FALSE, FALSE)

(* C11 as stated: parse_particles moves the maximal leading run of          *)
(* lowercase-initial words of family into non-dropping-particle, trimmed,  *)
(* and leaves the rest in family, which then does not start with a         *)
(* particle; "van der Vlist" becomes "van der" and "Vlist".                *)
C11_ParticlesAsStated ==
    Parsed /\ before.family # NoneOpt =>
        /\ \E e \in 0..Len(before.family.v) :
              FamilySplitAt(e, trim(Take(before.family.v, e)))
        /\ VanDerVlistExample

(* C11: parse_particles moves the maximal leading run of particles of      *)
(* family into non-dropping-particle and leaves the rest in family, which  *)
(* then does not start with a particle.  The particle field is trimmed,    *)
(* except that one space stays after a final apostrophe when the run ended *)
(* in whitespace.  "van der Vlist" becomes "van der" and "Vlist".          *)
C11_Particles ==
    Parsed /\ before.family # NoneOpt =>
        /\ \E e \in 0..Len(before.family.v) :
              FamilySplitAt(e, TrimmedParticle(Take(before.family.v, e)))
        /\ VanDerVlistExample

\* A run of two particles was moved, and one that keeps its space.
C11_Witness ==
    /\ Parsed
    /\ \/ before.family = Some(VanDerVlist) /\ person.non_dropping_particle = Some(VanDer)
       \/ /\ before.family = Some(<<"a", "'", " ", "B">>)
          /\ person.non_dropping_particle = Some(<<"a", "U2019", " ">>)
          /\ person.family = Some(<<"B">>)

HasAsciiApostrophe(o) == o # NoneOpt /\ \E i \in 1..Len(o.v) : o.v[i] = "'"

TextFields(p) ==
    {p.family, p.given, p.non_dropping_particle, p.dropping_particle, p.suffix}

(* C12: after parse_particles, whether it parsed or skipped, no field of   *)
(* the name (family, given, non-dropping-particle, dropping-particle,      *)
(* suffix) contains the ASCII apostrophe U+0027.                           *)
C12_NoAsciiApostrophe ==
    parses > 0 => \A o \in TextFields(person) : ~HasAsciiApostrophe(o)

\* b is a with every U+0027 made U+2019 and nothing else changed.
OnlyApostrophesReplaced(a, b) ==
    \/ a = NoneOpt /\ b = NoneOpt
    \/ /\ a # NoneOpt /\ b # NoneOpt
       /\ Len(a.v) = Len(b.v)
       /\ \A i \in 1..Len(a.v) : b.v[i] = IF a.v[i] = "'" THEN "U2019" ELSE a.v[i]

(* C13: when static_particles is set or a non-dropping particle, dropping  *)
(* particle or suffix is supplied, parse_particles extracts nothing:       *)
(* suffix, comma_suffix and static_particles are unchanged and family,     *)
(* given and the two particle fields differ from the input only by the     *)
(* replacement of apostrophes.                                             *)
C13_SuppliedNotParsed ==
    parses > 0 /\ Supplied(before) =>
        /\ person.suffix = before.suffix
        /\ person.comma_suffix = before.comma_suffix
        /\ person.static_particles = before.static_particles
        /\ OnlyApostrophesReplaced(before.family, person.family)
        /\ OnlyApostrophesReplaced(before.given, person.given)
        /\ OnlyApostrophesReplaced(before.non_dropping_particle,
                                   person.non_dropping_particle)
        /\ OnlyApostrophesReplaced(before.dropping_particle, person.dropping_particle)

\* static-particles alone kept "van der Vlist" and "Givenname d'" whole.
C13_Witness ==
    /\ parses = 1
    /\ before.static_particles
    /\ before.non_dropping_particle = NoneOpt /\ before.suffix = NoneOpt
    /\ before.family = Some(VanDerVlist) /\ person.family = Some(VanDerVlist)
    /\ before.given = Some(GivennameD)
    /\ person.given = Some(replace_apostrophes(GivennameD))
    /\ person.dropping_particle = NoneOpt

(***************************************************************************)
(*            Properties: construction and the test executor               *)
(***************************************************************************)
\* new() answered with the style error exactly for a text that does not
\* parse, and then there is no processor: nothing was ever called on one.
NewReturnsStyleError ==
    made.st # "none" =>
        /\ made.st = "err" <=> StyleFromStr(made.style_string).st = "none"
        /\ made.st = "ok" => made.formatter = Markup(format.res.v)
        /\ made.st = "err" =>
              /\ made.formatter = "none"
              /\ lastOp.op = "new" /\ lastOp.err
              /\ cluster_ids = <<>> /\ all_keys = {} /\ queue = <<>>

\* set_style_text() with a text that does not parse returns the error and
\* changes no input, no memo and not the queue.
FailedStyleTextChangesNothing ==
    \A text \in StyleTexts :
        SetStyleText(text) =>
            /\ lastOp'.err <=> StyleFromStr(text).st = "none"
            /\ lastOp'.err => UNCHANGED <<inputVars, save_updates, built, queue>>
            /\ ~lastOp'.err => style' = StyleFromStr(text).v

(* C14: a style text that fails to parse is never installed: new() returns *)
(* the style error instead of a processor, and set_style_text() returns    *)
(* the error and leaves the style, the other inputs and the update queue   *)
(* unchanged.                                                              *)
C14_StyleErrorNotInstalled ==
    []NewReturnsStyleError /\ [][FailedStyleTextChangesNothing]_vars

\* set_style_text() failed on a processor that holds references, a cluster
\* and the style s2.
C14_Witness ==
    /\ lastOp.op = "set_style_text" /\ lastOp.err
    /\ made.st = "ok" /\ made.style_string = "s2" /\ style = "s2"
    /\ all_keys # {} /\ cluster_ids # <<>>

(* C15: a format name is accepted iff it is one of html, rtf, plain-test;  *)
(* every other name is rejected with "unknown format <name>" and no        *)
(* processor is built from it.                                             *)
C15_FormatNames ==
    format.st # "unread" /\ format.name # Absent =>
        /\ format.st = "ok" <=> format.name \in {"html", "rtf", "plain-test"}
        /\ format.st = "err" =>
              /\ format.res.err = <<"unknown format", format.name>>
              /\ made.st = "none"

BothFlags(item) == item.suppress_author /\ item.author_only

HasBothFlags(instr) ==
    \E i \in 1..Len(instr.citation_items) : BothFlags(instr.citation_items[i])

\* The suppression of the cites execute() built, by the flags of its items.
SuppressionByFlags ==
    lastOp.op = "execute" =>
        /\ HasBothFlags(instruction) => lastOp.err
        /\ ~lastOp.err =>
              /\ Len(last_cites) = Len(instruction.citation_items)
              /\ \A i \in 1..Len(last_cites) :
                    LET item == instruction.citation_items[i] IN
                    last_cites[i].suppression =
                        IF item.suppress_author THEN "Rest"
                        ELSE IF item.author_only THEN "InText"
                        ELSE "None"

\* An execute() handed both flags changes nothing of the processor.
BothFlagsChangeNothing ==
    lastOp'.op = "execute" /\ calls' # calls /\ HasBothFlags(instruction')
        => UNCHANGED <<inputVars, save_updates, built, queue>> /\ last_cites' = last_cites

(* C18: a cite input with suppress-author and author-only both set aborts  *)
(* the operation (to_cite panics, no cite is produced) and leaves the      *)
(* processor, its update queue included, unchanged; the other three        *)
(* combinations give Rest, InText and no suppression.                      *)
C18_BothFlagsAbort ==
    []SuppressionByFlags /\ [][BothFlagsChangeNothing]_vars

(***************************************************************************)
(*                         Properties: RefContext                          *)
(***************************************************************************)
\* The entry the short-form fallback is stated to answer from.
ShortFallback(var, form) ==
    CASE form = "Short" /\ var = "Title" -> "TitleShort"
      [] form = "Short" /\ var = "ContainerTitle" -> "ContainerTitleShort"
      [] OTHER -> var

(* C16: get_ordinary(var, form) with form = Short answers title from       *)
(* title-short and container-title from container-title-short; every other *)
(* (var, form) returns the reference's own entry for var, none when absent.*)
C16_ShortFallback ==
    asked.fn = "get_ordinary" =>
        asked.out = Get(ctx.reference.ordinary, ShortFallback(asked.var, asked.form))

VirtualVariables ==
    {Number("Locator"), Number("FirstReferenceNoteNumber"), Number("CitationNumber")}

\* What the cite and layout context alone say about a virtual variable.
ContextAnswer(var) ==
    CASE var = Number("Locator") -> ctx.locator_type.st = "some"
      [] var = Number("FirstReferenceNoteNumber") -> matches(ctx.position, "Subsequent")
      [] var = Number("CitationNumber") -> ctx.style.bibliography

(* C17: has_variable answers locator, first-reference-note-number and      *)
(* citation-number from the context only: locator iff the context has a    *)
(* locator type, first-reference-note-number iff the position matches      *)
(* Subsequent, citation-number iff the style has a bibliography; a context *)
(* that differs only in the reference's stored variables answers the same. *)
C17_VirtualFromContext ==
    (asked.fn = "has_variable" /\ asked.var \in VirtualVariables) =>
        /\ asked.out = ContextAnswer(asked.var)
        /\ \A r \in References :
                has_variable([ctx EXCEPT !.reference = r], asked.var) = asked.out

\* locator was asked of a cite without a locator whose reference stores one
C17_Witness ==
    /\ asked.fn = "has_variable"
    /\ asked.var = Number("Locator")
    /\ "Locator" \in DOMAIN ctx.reference.number
    /\ ctx.locator_type = NoneOpt
    /\ asked.out = FALSE

(***************************************************************************)
(*                       Properties: nested groups                         *)
(***************************************************************************)
\* The neighbour combination as the rules state it.
NeighbourRule(a, b) ==
    IF a = "DidRender" \/ b = "DidRender" THEN "DidRender"
    ELSE IF a = "OnlyEmpty" \/ b = "OnlyEmpty" THEN "OnlyEmpty"
    ELSE "NoneSeen"

(* C19: neighbour(a, b) is DidRender if either argument is DidRender,      *)
(* otherwise OnlyEmpty if either is OnlyEmpty, otherwise NoneSeen, for all *)
(* nine pairs, and NoneSeen.neighbour(DidRender) = DidRender.              *)
C19_NeighbourTable ==
    /\ gvOp.fn = "neighbour" => gvOp.out = NeighbourRule(gvOp.self, gvOp.other)
    /\ \A a, b \in GroupVars : neighbour(a, b) = NeighbourRule(a, b)
    /\ neighbour("NoneSeen", "DidRender") = "DidRender"

\* a leaf without its variable joined a group that had seen nothing
C19_Witness ==
    gvOp = [fn |-> "neighbour", self |-> "NoneSeen", other |-> "OnlyEmpty",
            out |-> "OnlyEmpty"]

\* Parent inheritance as the rules state it.
InheritRule(parent, child) ==
    CASE child = "NoneSeen" -> parent
      [] child = "OnlyEmpty" ->
            IF parent = "DidRender" THEN "DidRender" ELSE "OnlyEmpty"
      [] child = "DidRender" -> "DidRender"

(* C20: with_subtree(parent, child): a NoneSeen child leaves the parent    *)
(* unchanged; an OnlyEmpty child turns it into parent.did_not_render()     *)
(* (DidRender stays, NoneSeen and OnlyEmpty become OnlyEmpty); a DidRender *)
(* child makes the parent DidRender; for all nine pairs.                   *)
C20_SubtreeTable ==
    /\ gvOp.fn = "with_subtree" => gvOp.out = InheritRule(gvOp.self, gvOp.other)
    /\ \A parent, child \in GroupVars :
            with_subtree(parent, child) = InheritRule(parent, child)
    /\ \A parent \in GroupVars :
            with_subtree(parent, "OnlyEmpty") = did_not_render(parent)

\* a group that rendered closed over a child group whose variables were empty
C20_Witness ==
    gvOp = [fn |-> "with_subtree", self |-> "DidRender", other |-> "OnlyEmpty",
            out |-> "DidRender"]

(***************************************************************************)
(*               Properties: the scan of natural_cmp                       *)
(***************************************************************************)
\* Two tokens of one type that Token::partial_cmp orders.
ComparableTypes == {"Str", "Num", "Date"}
SameComparableType(t, u) == t.type = u.type /\ t.type \in ComparableTypes

\* The positions both keys have tokens for.
SharedPositions == 1..Min(Len(Tokens(sortA)), Len(Tokens(sortB)))

\* The positions whose tokens have one comparable type and are not equal.
DecidingPositions ==
    {i \in SharedPositions :
        /\ SameComparableType(Tokens(sortA)[i], Tokens(sortB)[i])
        /\ TokenPartialCmp(Tokens(sortA)[i], Tokens(sortB)[i]) # "Equal"}

FirstDeciding == CHOOSE i \in DecidingPositions : \A j \in DecidingPositions : i <= j

(* C21: a position whose two tokens have different types yields no         *)
(* ordering and the scan goes on; natural_cmp returns the ordering of the  *)
(* first position whose tokens have the same comparable type and are not   *)
(* equal, and Equal when the shared positions hold no such position.       *)
C21_MixedTypesSkipped ==
    Compared =>
        /\ \A i \in SharedPositions :
              Tokens(sortA)[i].type # Tokens(sortB)[i].type
                  => TokenPartialCmp(Tokens(sortA)[i], Tokens(sortB)[i]) = None
        /\ cmpAB = IF DecidingPositions = {} THEN "Equal"
                   ELSE TokenPartialCmp(Tokens(sortA)[FirstDeciding],
                                        Tokens(sortB)[FirstDeciding])

\* text against a number at the first position, 1 against 2 at the second
C21_Witness ==
    /\ sortA = <<"a">> \o NumSeg(<<"1">>)
    /\ sortB = NumSeg(<<"1">>) \o NumSeg(<<"0", "2">>)
    /\ cmpAB = "Less"

\* s without its i-th element.
RemoveAt(s, i) == SubSeq(s, 1, i - 1) \o SubSeq(s, i + 1, Len(s))

\* The positions where both keys hold a citation-number token.
CitationNumberPositions ==
    {i \in SharedPositions :
        /\ Tokens(sortA)[i].type = "CitationNumber"
        /\ Tokens(sortB)[i].type = "CitationNumber"}

CnumDigitRuns == {<<"1">>, <<"2">>}
CnumAffixes == {<<>>, <<"a">>, <<"A">>, NumSeg(<<"1">>), NumSeg(<<"0", "2">>)}

(* C22: two citation-number tokens at one position never decide            *)
(* natural_cmp: the result is what the two token sequences give without    *)
(* that position; keys that differ only in the digits of a citation-number *)
(* segment compare Equal; the tokens after the segment are still compared. *)
C22_CitationNumberPreCompared ==
    Compared =>
        /\ \A i \in CitationNumberPositions :
              cmpAB = NaturalCmpLoop(RemoveAt(Tokens(sortA), i),
                                     RemoveAt(Tokens(sortB), i), 1, "Equal")
        /\ \A pre, post \in CnumAffixes : \A d, e \in CnumDigitRuns :
              (/\ sortA = pre \o CitationNumSeg(d) \o post
               /\ sortB = pre \o CitationNumSeg(e) \o post) => cmpAB = "Equal"
        /\ \A t, u \in CnumAffixes \ {<<>>} : \A d, e \in CnumDigitRuns :
              (/\ sortA = CitationNumSeg(d) \o t
               /\ sortB = CitationNumSeg(e) \o u) => cmpAB = natural_cmp(t, u)

\* citation number 1 then "a" against citation number 2 then "A"
C22_Witness ==
    /\ sortA = CitationNumSeg(<<"1">>) \o <<"a">>
    /\ sortB = CitationNumSeg(<<"2">>) \o <<"A">>
    /\ cmpAB = "Greater"
    /\ cmpBA = "Less"

(* C28: natural_cmp(a, a) = Equal and natural_cmp(a, b) is the reverse of  *)
(* natural_cmp(b, a) for all keys, also when the tokens of a key stop at a *)
(* malformed delimited segment or one key has fewer tokens than the other. *)
C28_ReflexiveSignSymmetric ==
    Compared =>
        /\ cmpAB = Reverse(cmpBA)
        /\ sortA = sortB => cmpAB = "Equal"
        /\ natural_cmp(sortA, sortA) = "Equal"
        /\ natural_cmp(sortB, sortB) = "Equal"

\* a key whose date segment is not closed against a longer well-formed key
C28_Witness ==
    /\ sortA = <<"a">> \o <<DATE_START, "2", "0", "0", "0">>
    /\ sortB = <<"A">> \o NumSeg(<<"1">>)
    /\ Len(Tokens(sortA)) = 1
    /\ Len(Tokens(sortB)) = 2
    /\ cmpAB = "Greater"
    /\ cmpBA = "Less"

(***************************************************************************)
(*               Properties: dropping particles, idempotence               *)
(***************************************************************************)
\* A word of g starts at i.
WordStart(g, i) == g[i] # " " /\ (i = 1 \/ g[i - 1] = " ")

\* The word of g that starts at i.
WordAt(g, i) == Take(Drop(g, i - 1), NonWsRun(Drop(g, i - 1)))

\* The starts of the trailing runs of lowercase-initial words of g.
RunStarts(g) ==
    {k \in 1..Len(g) :
        /\ WordStart(g, k)
        /\ \A i \in k..Len(g) : WordStart(g, i) => LowercaseInitial(WordAt(g, i))}

\* Where the longest such run starts; 0 when the last word is not one.
TrailingRunStart(g) ==
    IF RunStarts(g) = {} THEN 0
    ELSE CHOOSE k \in RunStarts(g) : \A j \in RunStarts(g) : k <= j

\* The given name g with its trailing run of lowercase-initial words moved
\* to dropping-particle.
DroppingSplit(g) ==
    LET k == TrailingRunStart(g)
    IN  IF k = 0
        THEN [given |-> Some(replace_apostrophes(g)), dropping_particle |-> NoneOpt]
        ELSE [given |-> Some(replace_apostrophes(trim_end(Take(g, k - 1)))),
              dropping_particle |-> Some(replace_apostrophes(trim(Drop(g, k - 1))))]

HasComma(g) == \E i \in 1..Len(g) : g[i] = ","

GivenParsed == Parsed /\ before.given # NoneOpt

(* C23: for a person-name with no particle or suffix supplied,             *)
(* parse_particles moves the trailing run of lowercase-initial words of    *)
(* given into dropping-particle (trimmed, apostrophe normalized), leaves   *)
(* the preceding words in given and does not touch family; a given name    *)
(* with no trailing lowercase word gets no dropping particle.              *)
C23_DroppingParticle ==
    (GivenParsed /\ ~HasComma(before.given.v)) =>
        /\ person.given = DroppingSplit(before.given.v).given
        /\ person.dropping_particle = DroppingSplit(before.given.v).dropping_particle
        /\ person.family = ParseFamily(before).family

(* C29: parse_particles is idempotent: applied twice it gives the same     *)
(* name, all seven fields, as applied once, whether the first application  *)
(* extracted particles or a suffix, extracted nothing, or was skipped.     *)
C29_Idempotent ==
    parses = 2 => person = parse_particles(before) /\ person = before

\* "van der Vlist" was split by the first application and kept by the second
C29_Witness ==
    /\ parses = 2
    /\ before = PersonName(Some(Vlist), Some(Eric), Some(VanDer), NoneOpt, NoneOpt,
                           FALSE, FALSE)
    /\ person = before

(***************************************************************************)
(*                Properties: the algebra of group summaries               *)
(***************************************************************************)
\* NoneSeen < OnlyEmpty < DidRender
GroupVarsRank(gv) ==
    CASE gv = "NoneSeen" -> 0 [] gv = "OnlyEmpty" -> 1 [] gv = "DidRender" -> 2

GroupVarsMax(a, b) == IF GroupVarsRank(a) >= GroupVarsRank(b) THEN a ELSE b

(* C30: the summary of a group does not depend on the order or grouping of *)
(* its children: neighbour is commutative, associative and idempotent with *)
(* identity NoneSeen, being the maximum under NoneSeen < OnlyEmpty <        *)
(* DidRender, and with_subtree(p, c) = neighbour(p, c) for all nine pairs. *)
C30_SummaryAlgebra ==
    /\ \A a, b \in GroupVars :
          /\ neighbour(a, b) = neighbour(b, a)
          /\ neighbour(a, b) = GroupVarsMax(a, b)
          /\ with_subtree(a, b) = neighbour(a, b)
    /\ \A a, b, c \in GroupVars :
          neighbour(neighbour(a, b), c) = neighbour(a, neighbour(b, c))
    /\ \A a \in GroupVars :
          /\ neighbour(a, a) = a
          /\ neighbour(a, "NoneSeen") = a
          /\ neighbour("NoneSeen", a) = a
    /\ gvOp.fn \in {"neighbour", "with_subtree"} =>
          /\ gvOp.out = neighbour(gvOp.other, gvOp.self)
          /\ gvOp.out = GroupVarsMax(gvOp.self, gvOp.other)

\* a group whose variables were empty closed over a child that saw none
C30_Witness ==
    gvOp = [fn |-> "with_subtree", self |-> "OnlyEmpty", other |-> "NoneSeen",
            out |-> "OnlyEmpty"]

(***************************************************************************)
(*          Properties: the known keys and the document order              *)
(***************************************************************************)
\* Processor::get_reference
get_reference(ref_id) == reference(all_keys, reference_input, ref_id)

\* The ids get_reference returns a reference for.
ReturnedIds == {r \in RefIds : get_reference(r) # NoRef}

\* insert_reference adds one id to the known keys and removes none.
InsertReferenceKeepsKeys ==
    (lastOp'.op = "insert_reference" /\ calls' = calls + 1) =>
        /\ all_keys \subseteq all_keys'
        /\ ReturnedIds \subseteq ReturnedIds'

(* C26: after any sequence of set_references and insert_reference calls    *)
(* all_keys is the set of ids of the references get_reference returns, and *)
(* these are all the references stored: insert_reference(r) adds r's id    *)
(* without removing the ids of the references stored earlier.              *)
C26_AllKeysAfterInsert ==
    [](all_keys = ReturnedIds /\ all_keys = LibraryKeys)
    /\ [][InsertReferenceKeepsKeys]_vars

NoDuplicates(s) == \A i, j \in DOMAIN s : i # j => s[i] # s[j]

\* s without the elements equal to id, in order.
RECURSIVE Without(_, _)
Without(s, id) ==
    IF s = <<>> THEN <<>>
    ELSE IF Head(s) = id THEN Without(Tail(s), id)
    ELSE <<Head(s)>> \o Without(Tail(s), id)

\* What each call does to the document order.
DocumentOrderSteps ==
    /\ lastOp'.op = "init_clusters" =>
          \A clusters \in Documents :
              InitClusters(clusters) =>
                  cluster_ids' = [i \in DOMAIN clusters |-> clusters[i].id]
    /\ lastOp'.op = "insert_cluster" =>
          \A cluster \in Clusters :
              InsertCluster(cluster) =>
                  cluster_ids' =
                      IF \E i \in DOMAIN cluster_ids : cluster_ids[i] = cluster.id
                      THEN cluster_ids
                      ELSE cluster_ids \o <<cluster.id>>
    /\ lastOp'.op = "remove_cluster" =>
          \A id \in ClusterIds :
              RemoveCluster(id) =>
                  /\ cluster_ids' = Without(cluster_ids, id)
                  /\ Range(cluster_ids') = Range(cluster_ids) \ {id}
    /\ lastOp'.op = "renumber_clusters" => cluster_ids' = cluster_ids

(* C27: from init_clusters with pairwise distinct ids, after any sequence  *)
(* of insert_cluster, remove_cluster and renumber_clusters cluster_ids has *)
(* no duplicate and holds the ids inserted and not since removed:          *)
(* insert_cluster of a new id appends it last, insert_cluster of an        *)
(* existing id and renumber_clusters leave the list unchanged, and         *)
(* remove_cluster deletes only the given id and keeps the others' order.   *)
C27_DocumentOrder ==
    []NoDuplicates(cluster_ids) /\ [][DocumentOrderSteps]_vars

\* insert_cluster left the document order 1, 2 at the third call or later
C27_Witness ==
    /\ cluster_ids = <<1, 2>>
    /\ lastOp.op = "insert_cluster"
    /\ calls >= 3

(***************************************************************************)
(*                    Properties: flip-flop formatting                     *)
(***************************************************************************)
Rewritten == ffOut.st = "some"

\* The paths to the nodes of a list of micro nodes, as child indexes.
RECURSIVE NodePaths(_)
NodePaths(nodes) ==
    UNION {{<<i>>} \cup {<<i>> \o p : p \in NodePaths(nodes[i].subs)} :
              i \in 1..Len(nodes)}

RECURSIVE NodeAtPath(_, _)
NodeAtPath(nodes, path) ==
    IF Len(path) = 1 THEN nodes[path[1]]
    ELSE NodeAtPath(nodes[path[1]].subs, Tail(path))

\* The number of formatted nodes with command cmd above the node at path.
SameStyleAbove(nodes, path, cmd) ==
    Cardinality({k \in 1..(Len(path) - 1) :
                    /\ NodeAtPath(nodes, Take(path, k)).kind = "Formatted"
                    /\ NodeAtPath(nodes, Take(path, k)).cmd = cmd})

TogglingCmds == {"FontStyleItalic", "FontWeightBold", "FontVariantSmallCaps"}

NormalOf(cmd) ==
    CASE cmd = "FontStyleItalic" -> "FontStyleNormal"
      [] cmd = "FontWeightBold" -> "FontWeightNormal"
      [] cmd = "FontVariantSmallCaps" -> "FontVariantNormal"

\* The style of cmd is active in state.
Active(state, cmd) ==
    CASE cmd = "FontStyleItalic" -> state.in_emph
      [] cmd = "FontWeightBold" -> state.in_strong
      [] cmd = "FontVariantSmallCaps" -> state.in_small_caps

Odd(n) == n % 2 = 1

\* The command the node at path is to be emitted with.
ToggledCmd(state, nodes, path) ==
    LET cmd == NodeAtPath(nodes, path).cmd
    IN  IF cmd \notin TogglingCmds THEN cmd
        ELSE IF Active(state, cmd) # Odd(SameStyleAbove(nodes, path, cmd))
             THEN NormalOf(cmd)
        ELSE cmd

(* C24: an italic, bold or small-caps micro node is emitted with its own   *)
(* command when its style is inactive in the incoming state and with the   *)
(* Normal command when it is active, and its children are processed with   *)
(* that flag inverted: along a path of nested same-style nodes the         *)
(* commands alternate; the incoming state is not modified, so siblings are *)
(* rewritten alike and the tree keeps its shape.                           *)
C24_MicroNodesToggle ==
    Rewritten =>
        /\ Len(ffOut.v) = Len(ffIn)
        /\ \A i \in 1..Len(ffIn) :
              ffIn[i].kind = "Micro" =>
                  /\ ffOut.v[i].kind = "Micro"
                  /\ NodePaths(ffOut.v[i].nodes) = NodePaths(ffIn[i].nodes)
                  /\ \A p \in NodePaths(ffIn[i].nodes) :
                        /\ NodeAtPath(ffOut.v[i].nodes, p).kind
                              = NodeAtPath(ffIn[i].nodes, p).kind
                        /\ NodeAtPath(ffOut.v[i].nodes, p).cmd
                              = ToggledCmd(ffState, ffIn[i].nodes, p)

\* three nested italic nodes inside italic text come out Normal, Italic, Normal
C24_Witness ==
    /\ ffState.in_emph
    /\ ffIn = <<Micro(<<NodeFormatted(<<NodeFormatted(<<NodeFormatted(<<NodeText>>,
                  "FontStyleItalic")>>, "FontStyleItalic")>>, "FontStyleItalic")>>)>>
    /\ ffOut = Some(<<Micro(<<NodeFormatted(<<NodeFormatted(<<NodeFormatted(<<NodeText>>,
                  "FontStyleNormal")>>, "FontStyleItalic")>>, "FontStyleNormal")>>)>>)

\* The paths to the elements of a list of inline elements.
RECURSIVE InlinePaths(_)
InlinePaths(inlines) ==
    UNION {{<<i>>} \cup {<<i>> \o p : p \in InlinePaths(inlines[i].subs)} :
              i \in 1..Len(inlines)}

RECURSIVE InlineAtPath(_, _)
InlineAtPath(inlines, path) ==
    IF Len(path) = 1 THEN inlines[path[1]]
    ELSE InlineAtPath(inlines[path[1]].subs, Tail(path))

QuotedPaths == {p \in InlinePaths(ffIn) : InlineAtPath(ffIn, p).kind = "Quoted"}

\* The quote-nesting depth: the number of Quoted elements above the path.
QuoteDepth(path) ==
    Cardinality({k \in 1..(Len(path) - 1) :
                    InlineAtPath(ffIn, Take(path, k)).kind = "Quoted"})

(* C25: the quote type emitted for a Quoted element depends only on the    *)
(* parity of its quote-nesting depth, not on the quote type in the input:  *)
(* elements at depths of equal parity get the same type, a Quoted element  *)
(* directly nested in another gets the opposite type from its parent.      *)
C25_QuotesByDepth ==
    Rewritten =>
        /\ InlinePaths(ffOut.v) = InlinePaths(ffIn)
        /\ \A p \in QuotedPaths :
              /\ InlineAtPath(ffOut.v, p).kind = "Quoted"
              /\ InlineAtPath(ffOut.v, p).q =
                    IF Odd(QuoteDepth(p)) THEN "DoubleQuote" ELSE "SingleQuote"
        /\ \A p, r \in QuotedPaths :
              (Odd(QuoteDepth(p)) = Odd(QuoteDepth(r)))
                  <=> (InlineAtPath(ffOut.v, p).q = InlineAtPath(ffOut.v, r).q)
        /\ \A p \in QuotedPaths :
              (Len(p) > 1 /\ Take(p, Len(p) - 1) \in QuotedPaths) =>
                  InlineAtPath(ffOut.v, p).q
                      # InlineAtPath(ffOut.v, Take(p, Len(p) - 1)).q

\* double quotes directly inside double quotes come out single outside double
C25_Witness ==
    /\ ffIn = <<Quoted("DoubleQuote", <<Quoted("DoubleQuote", <<InlineText>>)>>)>>
    /\ ffOut = Some(<<Quoted("SingleQuote", <<Quoted("DoubleQuote", <<InlineText>>)>>)>>)

=============================================================================
